---- MODULE Spec2Model ----
(***************************************************************************)
(* A model of the trip-planner repository's data handlers: the expense    *)
(* tracker's Firestore tools, the Flask dashboard endpoints, the budget    *)
(* optimizer's spending analyzer, the itinerary persistence tools and the  *)
(* SSE relay generators.                                                    *)
(*                                                                          *)
(* Strings the code compares, parses or formats are sequences of one-      *)
(* character strings, ordered by code point as Firestore and Python order  *)
(* them.  Amounts are Python floats in the code; the model draws them from *)
(* whole numbers, on which float addition and comparison are exact, and on *)
(* which  a < b * 0.8  (double arithmetic) holds exactly when 5a < 4b.     *)
(***************************************************************************)
EXTENDS Integers, Sequences, FiniteSets, TLC

VARIABLES
    expenses,           \* Firestore collection "expenses": id -> document or NoDoc
    budgets,            \* Firestore collection "budgets": id -> document or NoDoc
    budget_plans,       \* Firestore collection "budget_plans": id -> document or NoDoc
    spending_patterns,  \* Firestore collection "spending_patterns": sequence of documents
    resp,               \* what the most recent handler or tool call returned
    itineraries,        \* Firestore collection "itineraries": user id -> document or NoDoc
    state,              \* tool_context.state of the travel concierge session
    clock,              \* the Firestore server's timestamp counter
    upstream,           \* the upstream event iterator of a streaming request
    gen,                \* position of the running event_stream generator
    sent,               \* what the client of the streaming request has received
    agent_connection,   \* AgentSingleton._instance, NoInstance while it is None
    init_runs,          \* how often the initialisation body of AgentSingleton ran
    environ,            \* os.environ once load_dotenv has run
    calls,              \* the upstream requests the latest step of the application sent
    recommendations,    \* Firestore collection "recommendations": id -> document or NoDoc
    deal_alerts,        \* Firestore collection "deal_alerts": id -> document or NoDoc
    tasks               \* the tool calls in flight between their read and their write

vars == <<expenses, budgets, budget_plans, spending_patterns, resp,
          itineraries, state, clock, upstream, gen, sent,
          agent_connection, init_runs, environ, calls, recommendations,
          deal_alerts, tasks>>

-----------------------------------------------------------------------------
(* Bounds of the model.                                                     *)

MaxExpenses == 2
MaxBudgets == 2
MaxPlans == 1
MaxPatterns == 1
MaxClock == 3
MaxEvents == 3
MaxRecommendations == 3

MaxLimit == 2

MaxDeals == 2

MaxTasks == 2

-----------------------------------------------------------------------------
(* Strings.                                                                 *)

Digits == <<"0", "1", "2", "3", "4", "5", "6", "7", "8", "9">>

DigitChars == {Digits[i] : i \in 1..10}

IsDigit(c) == c \in DigitChars

DigitValues == [c \in DigitChars |-> (CHOOSE i \in 1..10 : Digits[i] = c) - 1]

DigitVal(c) == DigitValues[c]

\* Code points of the characters of the model's alphabet.
CodePoints ==
    (" " :> 32) @@ ("-" :> 45) @@ ("." :> 46) @@ ("/" :> 47) @@ (":" :> 58)
        @@ ("T" :> 84) @@ [c \in DigitChars |-> 48 + DigitValues[c]]

Ord(c) == CodePoints[c]

RECURSIVE StrLessFrom(_, _, _)
StrLessFrom(a, b, i) ==
    IF i > Len(a) THEN i <= Len(b)
    ELSE IF i > Len(b) THEN FALSE
    ELSE IF a[i] = b[i] THEN StrLessFrom(a, b, i + 1)
    ELSE Ord(a[i]) < Ord(b[i])

\* Python's and Firestore's order on strings: by the first differing
\* character, a proper prefix before its extensions.
StrLess(a, b) == StrLessFrom(a, b, 1)

StrLeq(a, b) == a = b \/ StrLess(a, b)

RECURSIVE Pow10(_)
Pow10(n) == IF n = 0 THEN 1 ELSE 10 * Pow10(n - 1)

\* The format specs {:02d} and %04d: n zero-padded to at least w digits.
ZeroPad(n, w) == [i \in 1..w |-> Digits[((n \div Pow10(w - i)) % 10) + 1]]

RECURSIVE DecimalString(_)
\* str(n) for n >= 0: the decimal digits with no padding.
DecimalString(n) ==
    IF n < 10 THEN <<Digits[n + 1]>>
    ELSE Append(DecimalString(n \div 10), Digits[(n % 10) + 1])

\* The value of a string of decimal digits.
RECURSIVE DecimalValue(_)
DecimalValue(s) ==
    IF s = <<>> THEN 0
    ELSE 10 * DecimalValue(SubSeq(s, 1, Len(s) - 1)) + DigitVal(s[Len(s)])

AllDigits(s) == \A i \in 1..Len(s) : IsDigit(s[i])

\* float(amount) on the strings the model draws: a non-empty digit string
\* converts to its value, anything else raises ValueError.
float_ok(s) == Len(s) > 0 /\ AllDigits(s)

float(s) == DecimalValue(s)

\* int(s) likewise.
int_ok(s) == Len(s) > 0 /\ AllDigits(s)

int(s) == DecimalValue(s)

-----------------------------------------------------------------------------
(* Dates: datetime.strptime(s, "%Y-%m-%d") and datetime.isoformat().       *)

IsLeap(y) == (y % 4 = 0 /\ y % 100 # 0) \/ y % 400 = 0

DaysInMonth(y, m) ==
    IF m \in {4, 6, 9, 11} THEN 30
    ELSE IF m = 2 THEN (IF IsLeap(y) THEN 29 ELSE 28)
    ELSE 31

ParseError == [ok |-> FALSE]

\* %m is the regex 1[0-2]|0[1-9]|[1-9]; %d is 3[01]|[12]\d|0[1-9]|[1-9]| [1-9].
MonthField(s) ==
    /\ Len(s) \in {1, 2}
    /\ AllDigits(s)
    /\ DecimalValue(s) \in 1..12

DayField(s) ==
    \/ /\ Len(s) \in {1, 2}
       /\ AllDigits(s)
       /\ DecimalValue(s) \in 1..31
    \/ /\ Len(s) = 2
       /\ s[1] = " "
       /\ IsDigit(s[2])
       /\ DigitVal(s[2]) \in 1..9

DayValue(s) == IF s[1] = " " THEN DigitVal(s[2]) ELSE DecimalValue(s)

\* strptime with the format "%Y-%m-%d": four year digits, a dash, a month of
\* one or two digits, a dash, a day of one or two digits, and nothing after;
\* the fields must then name a day of the calendar.
strptime(s) ==
    LET dashes == {i \in 1..Len(s) : s[i] = "-"}
    IN  IF Cardinality(dashes) # 2 THEN ParseError
        ELSE LET d1 == CHOOSE i \in dashes : \A j \in dashes : i <= j
                 d2 == CHOOSE i \in dashes : \A j \in dashes : j <= i
                 ys == SubSeq(s, 1, d1 - 1)
                 ms == SubSeq(s, d1 + 1, d2 - 1)
                 ds == SubSeq(s, d2 + 1, Len(s))
             IN  IF /\ Len(ys) = 4
                    /\ AllDigits(ys)
                    /\ DecimalValue(ys) >= 1
                    /\ MonthField(ms)
                    /\ DayField(ds)
                    /\ DayValue(ds) <= DaysInMonth(DecimalValue(ys), DecimalValue(ms))
                 THEN [ok |-> TRUE, year |-> DecimalValue(ys),
                       month |-> DecimalValue(ms), day |-> DayValue(ds),
                       hour |-> 0, minute |-> 0, second |-> 0, microsecond |-> 0]
                 ELSE ParseError

\* date.isoformat(): YYYY-MM-DD.
date_isoformat(dt) ==
    ZeroPad(dt.year, 4) \o <<"-">> \o ZeroPad(dt.month, 2) \o <<"-">> \o ZeroPad(dt.day, 2)

\* datetime.isoformat(): YYYY-MM-DDTHH:MM:SS, and .ffffff when the
\* microsecond is not zero.
isoformat(dt) ==
    date_isoformat(dt) \o <<"T">> \o ZeroPad(dt.hour, 2) \o <<":">>
        \o ZeroPad(dt.minute, 2) \o <<":">> \o ZeroPad(dt.second, 2)
        \o (IF dt.microsecond = 0 THEN <<>> ELSE <<".">> \o ZeroPad(dt.microsecond, 6))

\* datetime.replace(hour=23, minute=59, second=59).
end_of_day(dt) == [dt EXCEPT !.hour = 23, !.minute = 59, !.second = 59]

\* datetime.fromisoformat(s).date() on a stored date: the first ten
\* characters are YYYY-MM-DD; anything else raises.
fromisoformat_date(s) ==
    IF /\ Len(s) >= 10
       /\ AllDigits(SubSeq(s, 1, 4)) /\ s[5] = "-"
       /\ AllDigits(SubSeq(s, 6, 7)) /\ s[8] = "-"
       /\ AllDigits(SubSeq(s, 9, 10))
    THEN [ok |-> TRUE, year |-> DecimalValue(SubSeq(s, 1, 4)),
          month |-> DecimalValue(SubSeq(s, 6, 7)),
          day |-> DecimalValue(SubSeq(s, 9, 10))]
    ELSE ParseError

-----------------------------------------------------------------------------
(* Values shared by the handlers.                                           *)

\* Python's None where a string is expected; it is no string of the alphabet.
None == <<"None">>

\* Python's None where an int is expected.
NoneInt == -1

\* Python truthiness of an optional string: None and "" are false.
Truthy(s) == s # None /\ s # <<>>

NoDoc == [exists |-> FALSE]

NoResp == [op |-> "none"]

\* An empty dict.
EmptyDict == [k \in {} |-> 0]

\* A float quotient total / count, kept exact as the pair it is computed from.
Quotient(n, d) == [num |-> n, den |-> d]

ExpenseIds == 1..MaxExpenses

DealIds == 1..MaxDeals

TaskIds == 1..MaxTasks

\* No tool call is in flight.
IdleTask == [at |-> "idle"]

NoTasks == [t \in TaskIds |-> IdleTask]

Existing(coll) == {id \in DOMAIN coll : coll[id] # NoDoc}

FreeIds(coll) == {id \in DOMAIN coll : coll[id] = NoDoc}

RECURSIVE SumOf(_, _)
\* sum(f[x] for x in S)
SumOf(f, S) ==
    IF S = {} THEN 0
    ELSE LET x == CHOOSE y \in S : TRUE IN f[x] + SumOf(f, S \ {x})

-----------------------------------------------------------------------------
(* Firestore queries on the expenses collection.                            *)

\* where("date", ">=", lo) and where("date", "<=", hi) and
\* where("category", "==", cat), each applied only when given (None for a
\* bound, "" for the category); Firestore compares strings by code point.
\* The lower bound as ">" instead of ">=".
MatchingStrictLower(exps, lo, hi, cat) ==
    {id \in Existing(exps) :
        /\ lo # None => StrLess(lo, exps[id].date)
        /\ hi # None => StrLeq(exps[id].date, hi)
        /\ cat # "" => exps[id].category = cat}

Matching(exps, lo, hi, cat) ==
    {id \in Existing(exps) :
        /\ lo # None => StrLeq(lo, exps[id].date)
        /\ hi # None => StrLeq(exps[id].date, hi)
        /\ cat # "" => exps[id].category = cat}

\* The order Firestore returns documents in: by the field of an inequality
\* filter when there is one, then by document id.
Before(exps, byDate, i, j) ==
    IF byDate /\ exps[i].date # exps[j].date
    THEN StrLess(exps[i].date, exps[j].date)
    ELSE i < j

QueryOrder(exps, S, byDate) ==
    [k \in 1..Cardinality(S) |->
        CHOOSE i \in S : Cardinality({j \in S : Before(exps, byDate, j, i)}) = k - 1]

\* doc.id and doc.to_dict() of the fetched documents, in query order.
Fetch(exps, S, byDate) ==
    LET order == QueryOrder(exps, S, byDate)
    IN  [k \in 1..Cardinality(S) |->
            [id |-> order[k], name |-> exps[order[k]].name,
             amount |-> exps[order[k]].amount, date |-> exps[order[k]].date,
             category |-> exps[order[k]].category]]

\* d[k] = v: the amount replaces the running total instead of adding to it.
DictOverwrite(d, k, v) == IF k \in DOMAIN d THEN [d EXCEPT ![k] = v] ELSE d @@ (k :> v)

\* d[k] = d.get(k, 0.0) + v
DictAdd(d, k, v) == IF k \in DOMAIN d THEN [d EXCEPT ![k] = @ + v] ELSE d @@ (k :> v)

RECURSIVE SeqSum(_)
\* sum(exp["amount"] for exp in docs)
SeqSum(docs) ==
    IF docs = <<>> THEN 0 ELSE docs[1].amount + SeqSum(Tail(docs))

RECURSIVE category_loop(_, _)
\* for exp in docs: breakdown[cat] = breakdown.get(cat, 0.0) + exp["amount"]
category_loop(docs, acc) ==
    IF docs = <<>> THEN acc
    ELSE category_loop(Tail(docs), DictAdd(acc, docs[1].category, docs[1].amount))

DateNum(d) == d.year * 10000 + d.month * 100 + d.day

\* dates.sort() and its first and last element, as date.isoformat().
DateRange(dates) ==
    IF dates = <<>> THEN EmptyDict
    ELSE LET D == {dates[k] : k \in 1..Len(dates)}
         IN  [first_expense |->
                 date_isoformat(CHOOSE d \in D : \A e \in D : DateNum(d) <= DateNum(e)),
              last_expense |->
                 date_isoformat(CHOOSE d \in D : \A e \in D : DateNum(e) <= DateNum(d))]

-----------------------------------------------------------------------------
(* The Flask dashboard: get_dashboard_data and its two endpoints.           *)

RECURSIVE dashboard_loop(_, _)
\* The loop over the streamed documents.
dashboard_loop(docs, acc) ==
    IF docs = <<>> THEN acc
    ELSE LET data == docs[1]
             date_obj == fromisoformat_date(data.date)
         IN  dashboard_loop(Tail(docs),
                [expenses |-> Append(acc.expenses, data),
                 total_amount |-> acc.total_amount + data.amount,
                 expense_count |-> acc.expense_count + 1,
                 categories |-> DictAdd(acc.categories, data.category, data.amount),
                 dates |-> IF date_obj.ok THEN Append(acc.dates, date_obj) ELSE acc.dates])

FirstN(seq, n) == SubSeq(seq, 1, IF Len(seq) < n THEN Len(seq) ELSE n)

PreviewLength == 10

\* total_amount / expense_count with no guard against an empty result.
average_unguarded(total_amount, expense_count) ==
    Quotient(total_amount, expense_count)

\* total_amount / expense_count if expense_count > 0 else 0.0
average_expense(total_amount, expense_count) ==
    IF expense_count > 0 THEN Quotient(total_amount, expense_count) ELSE Quotient(0, 1)

get_dashboard_data(exps, start_date, end_date) ==
    IF Truthy(start_date) /\ ~strptime(start_date).ok THEN [raised |-> "ValueError"]
    ELSE IF Truthy(end_date) /\ ~strptime(end_date).ok THEN [raised |-> "ValueError"]
    ELSE
      LET lo == IF Truthy(start_date) THEN isoformat(strptime(start_date)) ELSE None
          hi == IF Truthy(end_date) THEN isoformat(end_of_day(strptime(end_date))) ELSE None
          docs == Fetch(exps, Matching(exps, lo, hi, ""), lo # None \/ hi # None)
          acc == dashboard_loop(docs,
                    [expenses |-> <<>>, total_amount |-> 0, expense_count |-> 0,
                     categories |-> EmptyDict, dates |-> <<>>])
      IN  [raised |-> "",
           total_amount |-> acc.total_amount,
           expense_count |-> acc.expense_count,
           average_expense |-> average_expense(acc.total_amount, acc.expense_count),
           categories |-> acc.categories,
           date_range |-> DateRange(acc.dates),
           expenses |-> FirstN(acc.expenses, PreviewLength)]

\* GET /api/expense/dashboard
get_dashboard(start_date, end_date) ==
    LET dashboard_data == get_dashboard_data(expenses, start_date, end_date)
    IN  /\ resp' = IF dashboard_data.raised = ""
                   THEN [op |-> "get_dashboard", start_date |-> start_date,
                         end_date |-> end_date, code |-> 200,
                         success |-> TRUE, data |-> dashboard_data]
                   ELSE [op |-> "get_dashboard", start_date |-> start_date,
                         end_date |-> end_date, code |-> 500,
                         error |-> "Error fetching dashboard data"]
        /\ UNCHANGED <<deal_alerts, tasks, agent_connection, init_runs, environ, calls, recommendations, expenses, budgets, budget_plans, spending_patterns,
                       itineraries, state, clock, upstream, gen, sent>>

\* GET /api/expense/dashboard/range
get_dashboard_range(start_date, end_date) ==
    /\ resp' =
         IF ~Truthy(start_date) \/ ~Truthy(end_date)
         THEN [op |-> "get_dashboard_range", start_date |-> start_date,
               end_date |-> end_date, code |-> 400,
               error |-> "Both start_date and end_date are required (YYYY-MM-DD format)"]
         ELSE IF ~strptime(start_date).ok \/ ~strptime(end_date).ok
         THEN [op |-> "get_dashboard_range", start_date |-> start_date,
               end_date |-> end_date, code |-> 400,
               error |-> "Invalid date format. Use YYYY-MM-DD"]
         ELSE LET dashboard_data == get_dashboard_data(expenses, start_date, end_date)
              IN  IF dashboard_data.raised = ""
                  THEN [op |-> "get_dashboard_range", start_date |-> start_date,
                        end_date |-> end_date, code |-> 200,
                        success |-> TRUE, data |-> dashboard_data,
                        filters |-> [start_date |-> start_date, end_date |-> end_date]]
                  ELSE [op |-> "get_dashboard_range", start_date |-> start_date,
                        end_date |-> end_date, code |-> 500,
                        error |-> "Error fetching dashboard data"]
    /\ UNCHANGED <<deal_alerts, tasks, agent_connection, init_runs, environ, calls, recommendations, expenses, budgets, budget_plans, spending_patterns,
                   itineraries, state, clock, upstream, gen, sent>>

-----------------------------------------------------------------------------
(* The expense tracker agent's tools.                                       *)

\* The document add_expense builds: ExpenseModel(...).model_dump().
stored_date_unparsed(date) ==
    date \o <<"T", "0", "0", ":", "0", "0", ":", "0", "0">>

\* datetime.strptime(date, "%Y-%m-%d").isoformat(), the date as it is stored.
stored_date(date) == isoformat(strptime(date))

StoredExpense(e) ==
    [name |-> e[1], amount |-> float(e[2]),
     date |-> stored_date(e[3]), category |-> e[4]]

\* add_expense: float(amount) and strptime(date) raise ValueError before
\* anything is written; the document is added under a fresh automatic id.
add_expense(name, amount, date, category) ==
    IF ~float_ok(amount) \/ ~strptime(date).ok
    THEN /\ resp' = [op |-> "add_expense", raised |-> "ValueError"]
         /\ UNCHANGED <<deal_alerts, tasks, agent_connection, init_runs, environ, calls, recommendations, expenses, budgets, budget_plans, spending_patterns,
                        itineraries, state, clock, upstream, gen, sent>>
    ELSE /\ \E id \in FreeIds(expenses) :
              /\ expenses' = [expenses EXCEPT ![id] =
                    StoredExpense(<<name, amount, date, category>>)]
              /\ resp' = [op |-> "add_expense", raised |-> "", id |-> id]
         /\ UNCHANGED <<deal_alerts, tasks, agent_connection, init_runs, environ, calls, recommendations, budgets, budget_plans, spending_patterns,
                        itineraries, state, clock, upstream, gen, sent>>

\* An Optional argument: Nothing is None, Some(v) is the value v.
Nothing == <<>>

Some(v) == <<v>>

merged_field_ignored(old, new) == old

\* if value is not None: doc_dict[key] = value
merged_field(old, new) == IF new = Nothing THEN old ELSE new[1]

\* The date argument as update_expense stores it.
converted_date(date) == IF date = Nothing THEN Nothing ELSE Some(stored_date(date[1]))

\* update_expense: "Expense not found" for a missing document; a malformed
\* date raises ValueError before the write; else the document with the
\* non-None arguments put in is written back.
update_expense(expense_id, name, amount, date, category) ==
    LET doc == expenses[expense_id]
        request == [expense_id |-> expense_id, name |-> name, amount |-> amount,
                    date |-> date, category |-> category]
    IN  IF doc = NoDoc
        THEN /\ resp' = [op |-> "update_expense", request |-> request, raised |-> "",
                         message |-> "Expense not found"]
             /\ UNCHANGED <<deal_alerts, tasks, agent_connection, init_runs, environ, calls, recommendations,
                            expenses, budgets, budget_plans, spending_patterns,
                            itineraries, state, clock, upstream, gen, sent>>
        ELSE IF date # Nothing /\ ~strptime(date[1]).ok
        THEN /\ resp' = [op |-> "update_expense", request |-> request,
                         raised |-> "ValueError", message |-> ""]
             /\ UNCHANGED <<deal_alerts, tasks, agent_connection, init_runs, environ, calls, recommendations,
                            expenses, budgets, budget_plans, spending_patterns,
                            itineraries, state, clock, upstream, gen, sent>>
        ELSE /\ expenses' = [expenses EXCEPT ![expense_id] =
                    [name |-> merged_field(doc.name, name),
                     amount |-> merged_field(doc.amount, amount),
                     date |-> merged_field(doc.date, converted_date(date)),
                     category |-> merged_field(doc.category, category)]]
             /\ resp' = [op |-> "update_expense", request |-> request, raised |-> "",
                         message |-> "Expense updated successfully"]
             /\ UNCHANGED <<deal_alerts, tasks, agent_connection, init_runs, environ, calls, recommendations,
                            budgets, budget_plans, spending_patterns,
                            itineraries, state, clock, upstream, gen, sent>>

\* delete_expense: deleting a document that does not exist succeeds too.
delete_expense(expense_id) ==
    /\ expenses' = [expenses EXCEPT ![expense_id] = NoDoc]
    /\ resp' = [op |-> "delete_expense", raised |-> "",
                message |-> "Expense deleted successfully"]
    /\ UNCHANGED <<deal_alerts, tasks, agent_connection, init_runs, environ, calls, recommendations, budgets, budget_plans, spending_patterns,
                   itineraries, state, clock, upstream, gen, sent>>


\* get_current_month_budget: the first budget of today's month and year.
get_current_month_budget(buds, today) ==
    LET docs == {id \in Existing(buds) :
                    buds[id].month = today.month /\ buds[id].year = today.year}
    IN  IF docs = {} THEN [found |-> FALSE]
        ELSE LET first == CHOOSE id \in docs : \A other \in docs : id <= other
             IN  [found |-> TRUE, id |-> first, amount |-> buds[first].amount,
                  month |-> buds[first].month, year |-> buds[first].year]

\* The summary get_expense_summary builds at the moment today.
expense_summary(exps, buds, today) ==
    LET lo == isoformat([today EXCEPT !.day = 1])
        hi == isoformat(today)
        docs == Fetch(exps, Matching(exps, lo, hi, ""), TRUE)
    IN  [total |-> SeqSum(docs),
         categories |-> category_loop(docs, EmptyDict),
         expenses |-> docs,
         budget |-> get_current_month_budget(buds, today)]

get_expense_summary(today) ==
    /\ resp' = [op |-> "get_expense_summary", today |-> today, raised |-> "",
                out |-> expense_summary(expenses, budgets, today)]
    /\ UNCHANGED <<deal_alerts, tasks, agent_connection, init_runs, environ, calls, recommendations, expenses, budgets, budget_plans, spending_patterns,
                   itineraries, state, clock, upstream, gen, sent>>

-----------------------------------------------------------------------------
(* The budget optimizer: firestore_client.get_expenses and the spending     *)
(* analyzer's analyze_spending_patterns.                                    *)

\* get_expenses: strptime raises on a malformed bound; the end bound is the
\* start of the end day.
get_expenses(exps, start_date, end_date, category) ==
    IF Truthy(start_date) /\ ~strptime(start_date).ok THEN [raised |-> "ValueError"]
    ELSE IF Truthy(end_date) /\ ~strptime(end_date).ok THEN [raised |-> "ValueError"]
    ELSE
      LET lo == IF Truthy(start_date) THEN isoformat(strptime(start_date)) ELSE None
          hi == IF Truthy(end_date) THEN isoformat(strptime(end_date)) ELSE None
      IN  [raised |-> "",
           expenses |-> Fetch(exps, Matching(exps, lo, hi, category),
                              lo # None \/ hi # None)]

RECURSIVE KeysInOrder(_, _)
\* The keys of the breakdown dict in insertion order.
KeysInOrder(docs, acc) ==
    IF docs = <<>> THEN acc
    ELSE KeysInOrder(Tail(docs),
            IF \E k \in 1..Len(acc) : acc[k] = docs[1].category
            THEN acc ELSE Append(acc, docs[1].category))

TopN == 5

\* sorted(breakdown.items(), key=lambda x: x[1], reverse=True)[:5]: by
\* total, largest first, equal totals in insertion order.
top_categories(docs, breakdown) ==
    LET keys == KeysInOrder(docs, <<>>)
        Pos(c) == CHOOSE k \in 1..Len(keys) : keys[k] = c
        Ahead(c) == {d \in DOMAIN breakdown :
                        \/ breakdown[d] > breakdown[c]
                        \/ breakdown[d] = breakdown[c] /\ Pos(d) < Pos(c)}
        sorted == [k \in 1..Len(keys) |->
                      CHOOSE c \in DOMAIN breakdown : Cardinality(Ahead(c)) = k - 1]
    IN  FirstN(sorted, TopN)

\* The analysis of a non-empty list of expenses.
spending_analysis(docs) ==
    LET total_spending == SeqSum(docs)
        expense_count == Len(docs)
        average == IF expense_count > 0
                   THEN Quotient(total_spending, expense_count)
                   ELSE Quotient(0, 1)
        category_breakdown == category_loop(docs, EmptyDict)
        top == top_categories(docs, category_breakdown)
        dated == SelectSeq(docs, LAMBDA e : e.date # <<>>)
        parsed == [k \in 1..Len(dated) |-> fromisoformat_date(dated[k].date)]
    IN  [total_spending |-> total_spending,
         expense_count |-> expense_count,
         average_expense |-> average,
         category_breakdown |-> category_breakdown,
         top_categories |-> top,
         date_range |-> IF \E k \in 1..Len(parsed) : ~parsed[k].ok
                        THEN EmptyDict ELSE DateRange(parsed),
         insights |->
            (IF total_spending > 0
             THEN << [kind |-> "Total spending", amount |-> total_spending,
                      count |-> expense_count],
                     [kind |-> "Average expense", amount |-> average],
                     [kind |-> "Highest spending category", category |-> top[1],
                      amount |-> category_breakdown[top[1]]] >>
             ELSE <<>>)
            \o (IF Cardinality(DOMAIN category_breakdown) > 1
                THEN << [kind |-> "Expenses spread across categories",
                         count |-> Cardinality(DOMAIN category_breakdown)] >>
                ELSE <<>>)]

NoExpensesAnalysis ==
    [total_spending |-> 0, expense_count |-> 0, average_expense |-> Quotient(0, 1),
     category_breakdown |-> EmptyDict, top_categories |-> <<>>,
     date_range |-> EmptyDict,
     insights |-> << [kind |-> "No expenses found for the specified period."] >>]

PatternIds == 1..MaxPatterns

\* analyze_spending_patterns: an empty result is returned as zeros and
\* nothing is saved; otherwise the pattern is saved under a fresh id with
\* created_at set to the current moment.
analyze_spending_patterns(start_date, end_date, category, user_id, now) ==
    LET got == get_expenses(expenses, start_date, end_date, category)
        args == [start_date |-> start_date, end_date |-> end_date,
                 category |-> category, user_id |-> user_id]
    IN  IF got.raised # ""
        THEN /\ resp' = [op |-> "analyze_spending_patterns", args |-> args,
                         raised |-> got.raised]
             /\ UNCHANGED <<deal_alerts, tasks, agent_connection, init_runs, environ, calls, recommendations, expenses, budgets, budget_plans, spending_patterns,
                            itineraries, state, clock, upstream, gen, sent>>
        ELSE IF got.expenses = <<>>
        THEN /\ resp' = [op |-> "analyze_spending_patterns", args |-> args,
                         raised |-> "", out |-> NoExpensesAnalysis]
             /\ UNCHANGED <<deal_alerts, tasks, agent_connection, init_runs, environ, calls, recommendations, expenses, budgets, budget_plans, spending_patterns,
                            itineraries, state, clock, upstream, gen, sent>>
        ELSE LET out == spending_analysis(got.expenses)
             IN  /\ \E id \in FreeIds(spending_patterns) :
                       spending_patterns' = [spending_patterns EXCEPT ![id] =
                          [user_id |-> user_id,
                           period |-> IF Truthy(start_date) \/ Truthy(end_date)
                                      THEN "custom" ELSE "all_time",
                           start_date |-> start_date,
                           end_date |-> end_date,
                           total_spending |-> out.total_spending,
                           category_breakdown |-> out.category_breakdown,
                           average_daily_spending |-> out.average_expense,
                           top_categories |-> out.top_categories,
                           insights |-> out.insights,
                           created_at |-> isoformat(now)]]
                 /\ resp' = [op |-> "analyze_spending_patterns", args |-> args,
                             raised |-> "", out |-> out]
                 /\ UNCHANGED <<deal_alerts, tasks, agent_connection, init_runs, environ, calls, recommendations, expenses, budgets, budget_plans,
                                itineraries, state, clock, upstream, gen, sent>>


-----------------------------------------------------------------------------
(* Budgets and budget plans, and compare_budget_vs_actual.                  *)

\* add_budget with a uniqueness check the code does not have.
add_budget_unique(amount, month, year) ==
    IF ~float_ok(amount) \/ ~int_ok(month) \/ ~int_ok(year)
    THEN /\ resp' = [op |-> "add_budget", raised |-> "ValueError"]
         /\ UNCHANGED <<deal_alerts, tasks, agent_connection, init_runs, environ, calls, recommendations,
                        expenses, budgets, budget_plans, spending_patterns,
                        itineraries, state, clock, upstream, gen, sent>>
    ELSE IF \E b \in Existing(budgets) :
               budgets[b].month = int(month) /\ budgets[b].year = int(year)
    THEN /\ resp' = [op |-> "add_budget", raised |-> "BudgetExists"]
         /\ UNCHANGED <<deal_alerts, tasks, agent_connection, init_runs, environ, calls, recommendations,
                        expenses, budgets, budget_plans, spending_patterns,
                        itineraries, state, clock, upstream, gen, sent>>
    ELSE /\ \E id \in FreeIds(budgets) :
              /\ budgets' = [budgets EXCEPT ![id] =
                    [amount |-> float(amount), month |-> int(month), year |-> int(year)]]
              /\ resp' = [op |-> "add_budget", raised |-> "", id |-> id]
         /\ UNCHANGED <<deal_alerts, tasks, agent_connection, init_runs, environ, calls, recommendations,
                        expenses, budget_plans, spending_patterns,
                        itineraries, state, clock, upstream, gen, sent>>

\* add_budget: float() and int() raise ValueError before anything is written.
add_budget(amount, month, year) ==
    IF ~float_ok(amount) \/ ~int_ok(month) \/ ~int_ok(year)
    THEN /\ resp' = [op |-> "add_budget", raised |-> "ValueError"]
         /\ UNCHANGED <<deal_alerts, tasks, agent_connection, init_runs, environ, calls, recommendations, expenses, budgets, budget_plans, spending_patterns,
                        itineraries, state, clock, upstream, gen, sent>>
    ELSE /\ \E id \in FreeIds(budgets) :
              /\ budgets' = [budgets EXCEPT ![id] =
                    [amount |-> float(amount), month |-> int(month), year |-> int(year)]]
              /\ resp' = [op |-> "add_budget", raised |-> "", id |-> id]
         /\ UNCHANGED <<deal_alerts, tasks, agent_connection, init_runs, environ, calls, recommendations, expenses, budget_plans, spending_patterns,
                        itineraries, state, clock, upstream, gen, sent>>

\* if data.amount: budget.amount = data.amount
truthy_field(old, new) == IF new # Nothing /\ new[1] # 0 THEN new[1] ELSE old

\* update_budget writing the arguments under an id that has no document.
update_budget_upsert(budget_id, amount, month, year) ==
    LET doc == IF budgets[budget_id] = NoDoc THEN [amount |-> 0, month |-> 0, year |-> 0]
               ELSE budgets[budget_id]
        request == [budget_id |-> budget_id, amount |-> amount, month |-> month,
                    year |-> year]
    IN  /\ budgets' = [budgets EXCEPT ![budget_id] =
              [amount |-> truthy_field(doc.amount, amount),
               month |-> truthy_field(doc.month, month),
               year |-> truthy_field(doc.year, year)]]
        /\ resp' = [op |-> "update_budget", request |-> request,
                    message |-> "Budget updated successfully"]
        /\ UNCHANGED <<deal_alerts, tasks, agent_connection, init_runs, environ, calls, recommendations,
                       expenses, budget_plans, spending_patterns,
                       itineraries, state, clock, upstream, gen, sent>>

\* update_budget: "Budget not found" for a missing document; else the
\* document with the truthy arguments put in is written back.
update_budget(budget_id, amount, month, year) ==
    LET doc == budgets[budget_id]
        request == [budget_id |-> budget_id, amount |-> amount, month |-> month,
                    year |-> year]
    IN  IF doc = NoDoc
        THEN /\ resp' = [op |-> "update_budget", request |-> request,
                         message |-> "Budget not found"]
             /\ UNCHANGED <<deal_alerts, tasks, agent_connection, init_runs, environ, calls, recommendations,
                            expenses, budgets, budget_plans, spending_patterns,
                            itineraries, state, clock, upstream, gen, sent>>
        ELSE /\ budgets' = [budgets EXCEPT ![budget_id] =
                    [amount |-> truthy_field(doc.amount, amount),
                     month |-> truthy_field(doc.month, month),
                     year |-> truthy_field(doc.year, year)]]
             /\ resp' = [op |-> "update_budget", request |-> request,
                         message |-> "Budget updated successfully"]
             /\ UNCHANGED <<deal_alerts, tasks, agent_connection, init_runs, environ, calls, recommendations,
                            expenses, budget_plans, spending_patterns,
                            itineraries, state, clock, upstream, gen, sent>>

\* delete_budget: deleting a document that does not exist succeeds too.
delete_budget(budget_id) ==
    /\ budgets' = [budgets EXCEPT ![budget_id] = NoDoc]
    /\ resp' = [op |-> "delete_budget", message |-> "Budget deleted successfully"]
    /\ UNCHANGED <<deal_alerts, tasks, agent_connection, init_runs, environ, calls, recommendations,
                   expenses, budget_plans, spending_patterns,
                   itineraries, state, clock, upstream, gen, sent>>

\* create_budget_plan and save_budget_plan: the arguments are stored as
\* they come, with created_at set to the current moment.
create_budget_plan(destination, start_date, end_date, total_budget, categories, trip_id, now) ==
    /\ \E id \in FreeIds(budget_plans) :
          /\ budget_plans' = [budget_plans EXCEPT ![id] =
                [trip_id |-> trip_id, destination |-> destination,
                 start_date |-> start_date, end_date |-> end_date,
                 total_budget |-> total_budget, categories |-> categories,
                 status |-> "planned", created_at |-> isoformat(now)]]
          /\ resp' = [op |-> "create_budget_plan", raised |-> "", id |-> id]
    /\ UNCHANGED <<deal_alerts, tasks, agent_connection, init_runs, environ, calls, recommendations, expenses, budgets, spending_patterns,
                   itineraries, state, clock, upstream, gen, sent>>

\* get_budgets(month, year): the budgets of that month and year, by id.
get_budgets(buds, month, year) ==
    LET S == {id \in Existing(buds) :
                /\ month # NoneInt => buds[id].month = month
                /\ year # NoneInt => buds[id].year = year}
    IN  [k \in 1..Cardinality(S) |->
            LET id == CHOOSE i \in S : Cardinality({j \in S : j < i}) = k - 1
            IN  [id |-> id, amount |-> buds[id].amount,
                 month |-> buds[id].month, year |-> buds[id].year]]

\* get_budget_plans(trip_id): the plans of that trip, by id.
get_budget_plans(plans, trip_id) ==
    LET S == {id \in Existing(plans) : trip_id # "" => plans[id].trip_id = trip_id}
    IN  [k \in 1..Cardinality(S) |->
            plans[CHOOSE i \in S : Cardinality({j \in S : j < i}) = k - 1]]

\* The operands of the comparison the wrong way round.
overall_status_swapped(total_actual, total_budgeted) ==
    IF total_budgeted > total_actual THEN "over_budget"
    ELSE IF 5 * total_actual < 4 * total_budgeted THEN "under_budget"
    ELSE "on_track"

\* The 80% boundary counted as under budget.
overall_status_inclusive(total_actual, total_budgeted) ==
    IF total_actual > total_budgeted THEN "over_budget"
    ELSE IF 5 * total_actual <= 4 * total_budgeted THEN "under_budget"
    ELSE "on_track"

\* The overall status: total_actual > total_budgeted, then
\* total_actual < total_budgeted * 0.8.
overall_status(total_actual, total_budgeted) ==
    IF total_actual > total_budgeted THEN "over_budget"
    ELSE IF 5 * total_actual < 4 * total_budgeted THEN "under_budget"
    ELSE "on_track"

\* The status of one category: actual > budgeted, then actual < budgeted * 0.8.
category_status(actual, budgeted) ==
    IF actual > budgeted THEN "over_budget"
    ELSE IF 5 * actual < 4 * budgeted THEN "under_budget"
    ELSE "on_track"

\* (difference / budgeted * 100) if budgeted > 0 else None
percent_over(difference, budgeted) ==
    IF budgeted > 0 THEN [none |-> FALSE, value |-> Quotient(difference * 100, budgeted)]
    ELSE [none |-> TRUE]

NoBudgetComparison ==
    [raised |-> "", total_budgeted |-> 0, total_actual |-> 0, difference |-> 0,
     percent_over_budget |-> [none |-> TRUE], category_comparisons |-> {},
     status |-> "no_budget", insights |-> <<"No budget found for comparison.">>]

\* What compare_budget_vs_actual(trip_id, month, year) returns on the given
\* collections.  category_comparisons is a list in the iteration order of a
\* Python set, which is not determined; the model keeps its elements.
budget_comparison(exps, buds, plans, trip_id, month, year) ==
    LET budget_plans_found == IF trip_id # "" THEN get_budget_plans(plans, trip_id) ELSE <<>>
        monthly_budgets == IF trip_id = "" /\ month # NoneInt /\ year # NoneInt
                           THEN get_budgets(buds, month, year) ELSE <<>>
        found == budget_plans_found # <<>> \/ monthly_budgets # <<>>
        total_budgeted == IF trip_id # "" THEN budget_plans_found[1].total_budget
                          ELSE monthly_budgets[1].amount
        budget_categories == IF trip_id # "" THEN budget_plans_found[1].categories
                             ELSE EmptyDict
        start_date == IF trip_id # "" THEN budget_plans_found[1].start_date
                      ELSE DecimalString(year) \o <<"-">> \o ZeroPad(month, 2)
                               \o <<"-", "0", "1">>
        end_date == IF trip_id # "" THEN budget_plans_found[1].end_date
                    ELSE IF month = 12
                    THEN DecimalString(year + 1) \o <<"-", "0", "1", "-", "0", "1">>
                    ELSE DecimalString(year) \o <<"-">> \o ZeroPad(month + 1, 2)
                             \o <<"-", "0", "1">>
        got == get_expenses(exps, start_date, end_date, "")
        total_actual == SeqSum(got.expenses)
        actual_categories == category_loop(got.expenses, EmptyDict)
        all_categories == DOMAIN budget_categories \cup DOMAIN actual_categories
        Budgeted(cat) == IF cat \in DOMAIN budget_categories
                         THEN budget_categories[cat] ELSE 0
        Actual(cat) == IF cat \in DOMAIN actual_categories
                       THEN actual_categories[cat] ELSE 0
    IN  IF ~found THEN NoBudgetComparison
        ELSE IF got.raised # "" THEN [raised |-> got.raised]
        ELSE [raised |-> "",
              total_budgeted |-> total_budgeted,
              total_actual |-> total_actual,
              difference |-> total_actual - total_budgeted,
              percent_over_budget |->
                  percent_over(total_actual - total_budgeted, total_budgeted),
              category_comparisons |->
                  {[category |-> cat,
                    budgeted_amount |-> Budgeted(cat),
                    actual_amount |-> Actual(cat),
                    difference |-> Actual(cat) - Budgeted(cat),
                    percent_over_budget |->
                        percent_over(Actual(cat) - Budgeted(cat), Budgeted(cat)),
                    status |-> category_status(Actual(cat), Budgeted(cat))]
                   : cat \in all_categories},
              status |-> overall_status(total_actual, total_budgeted),
              insights |-> <<>>]

compare_budget_vs_actual(trip_id, month, year) ==
    /\ resp' = [op |-> "compare_budget_vs_actual", trip_id |-> trip_id,
                month |-> month, year |-> year,
                out |-> budget_comparison(expenses, budgets, budget_plans,
                                          trip_id, month, year)]
    /\ UNCHANGED <<deal_alerts, tasks, agent_connection, init_runs, environ, calls, recommendations, expenses, budgets, budget_plans, spending_patterns,
                   itineraries, state, clock, upstream, gen, sent>>

-----------------------------------------------------------------------------
(* Itinerary persistence: nested JSON values and Firestore's merging set.   *)

\* A JSON value is a scalar, a list or a map from keys to values.
Leaf(v) == [kind |-> "leaf", value |-> v]

List(s) == [kind |-> "list", items |-> s]

Map(f) == [kind |-> "map", fields |-> f]

NoneValue == [kind |-> "none"]

IsEmptyMap(v) == v.kind = "map" /\ DOMAIN v.fields = {}

\* Python truthiness of state.get('itinerary'): None and {} are false.
TruthyValue(v) == v # NoneValue /\ ~IsEmptyMap(v)

RECURSIVE MergeFields(_, _)
\* DocumentReference.set(data, merge=True): the update mask is the set of the
\* leaf paths of data, a list and an empty map counting as leaves.  Every path of the
\* mask is written, every other field of the stored document is kept, at
\* any depth.
MergeFields(old, new) ==
    [k \in DOMAIN old \cup DOMAIN new |->
        IF k \notin DOMAIN new THEN old[k]
        ELSE IF new[k].kind = "map" /\ ~IsEmptyMap(new[k])
        THEN Map(MergeFields(IF k \in DOMAIN old /\ old[k].kind = "map"
                             THEN old[k].fields ELSE EmptyDict,
                             new[k].fields))
        ELSE new[k]]

\* The stored document after doc_ref.set(data, merge=True).
SetMerge(doc, data) ==
    IF doc = NoDoc THEN Map(data) ELSE Map(MergeFields(doc.fields, data))

InitialState ==
    [itinerary |-> NoneValue, user_id |-> "",
     itinerary_persisted |-> FALSE, itinerary_firestore_id |-> ""]

\* The itinerary agent's output_key: its output becomes state['itinerary'].
itinerary_agent(itinerary) ==
    /\ state' = [state EXCEPT !.itinerary = itinerary]
    /\ resp' = [op |-> "itinerary_agent"]
    /\ UNCHANGED <<deal_alerts, tasks, agent_connection, init_runs, environ, calls, recommendations, expenses, budgets, budget_plans, spending_patterns,
                   itineraries, clock, upstream, gen, sent>>

\* save_itinerary_to_firestore(tool_context); failed says whether a Firestore
\* call raised.
save_itinerary_to_firestore(failed) ==
    LET itinerary == state.itinerary
        user_id == IF state.user_id = "" THEN "default_user" ELSE state.user_id
        doc == itineraries[user_id]
        itinerary_data ==
            ("itinerary" :> itinerary) @@ ("user_id" :> Leaf(user_id))
                @@ ("updated_at" :> Leaf(clock + 1))
                @@ (IF doc = NoDoc THEN ("created_at" :> Leaf(clock + 1)) ELSE EmptyDict)
    IN  IF ~TruthyValue(itinerary)
        THEN /\ resp' = [op |-> "save_itinerary_to_firestore", status |-> "error",
                         message |-> "No itinerary found in the current state to save."]
             /\ UNCHANGED <<deal_alerts, tasks, agent_connection, init_runs, environ, calls, recommendations, expenses, budgets, budget_plans, spending_patterns,
                            itineraries, state, clock, upstream, gen, sent>>
        ELSE IF failed
        THEN /\ resp' = [op |-> "save_itinerary_to_firestore", status |-> "error",
                         message |-> "Failed to save itinerary to Firestore"]
             /\ UNCHANGED <<deal_alerts, tasks, agent_connection, init_runs, environ, calls, recommendations, expenses, budgets, budget_plans, spending_patterns,
                            itineraries, state, clock, upstream, gen, sent>>
        ELSE /\ clock < MaxClock
             /\ clock' = clock + 1
             /\ itineraries' = [itineraries EXCEPT ![user_id] = SetMerge(doc, itinerary_data)]
             /\ state' = [state EXCEPT !.itinerary_persisted = TRUE,
                                       !.itinerary_firestore_id = user_id]
             /\ resp' = [op |-> "save_itinerary_to_firestore", status |-> "success",
                         user_id |-> user_id]
             /\ UNCHANGED <<deal_alerts, tasks, agent_connection, init_runs, environ, calls, recommendations, expenses, budgets, budget_plans, spending_patterns,
                            upstream, gen, sent>>

\* load_itinerary_from_firestore(user_id, tool_context)
load_itinerary_from_firestore(user_id) ==
    LET doc == itineraries[user_id]
        itinerary == IF doc # NoDoc /\ "itinerary" \in DOMAIN doc.fields
                     THEN doc.fields["itinerary"] ELSE NoneValue
    IN  IF doc = NoDoc
        THEN /\ resp' = [op |-> "load_itinerary_from_firestore", status |-> "not_found",
                         user_id |-> user_id]
             /\ UNCHANGED <<deal_alerts, tasks, agent_connection, init_runs, environ, calls, recommendations, expenses, budgets, budget_plans, spending_patterns,
                            itineraries, state, clock, upstream, gen, sent>>
        ELSE IF TruthyValue(itinerary)
        THEN /\ state' = [state EXCEPT !.itinerary = itinerary,
                                       !.itinerary_persisted = TRUE,
                                       !.itinerary_firestore_id = user_id]
             /\ resp' = [op |-> "load_itinerary_from_firestore", status |-> "success",
                         user_id |-> user_id, itinerary |-> itinerary]
             /\ UNCHANGED <<deal_alerts, tasks, agent_connection, init_runs, environ, calls, recommendations, expenses, budgets, budget_plans, spending_patterns,
                            itineraries, clock, upstream, gen, sent>>
        ELSE /\ resp' = [op |-> "load_itinerary_from_firestore", status |-> "error",
                         user_id |-> user_id]
             /\ UNCHANGED <<deal_alerts, tasks, agent_connection, init_runs, environ, calls, recommendations, expenses, budgets, budget_plans, spending_patterns,
                            itineraries, state, clock, upstream, gen, sent>>

\* delete_itinerary_from_firestore(user_id, tool_context)
delete_itinerary_from_firestore(user_id) ==
    IF itineraries[user_id] = NoDoc
    THEN /\ resp' = [op |-> "delete_itinerary_from_firestore", status |-> "not_found",
                     user_id |-> user_id]
         /\ UNCHANGED <<deal_alerts, tasks, agent_connection, init_runs, environ, calls, recommendations, expenses, budgets, budget_plans, spending_patterns,
                        itineraries, state, clock, upstream, gen, sent>>
    ELSE /\ itineraries' = [itineraries EXCEPT ![user_id] = NoDoc]
         /\ state' = [state EXCEPT !.itinerary_persisted = FALSE,
                                   !.itinerary_firestore_id = ""]
         /\ resp' = [op |-> "delete_itinerary_from_firestore", status |-> "success",
                     user_id |-> user_id]
         /\ UNCHANGED <<deal_alerts, tasks, agent_connection, init_runs, environ, calls, recommendations, expenses, budgets, budget_plans, spending_patterns,
                        clock, upstream, gen, sent>>

-----------------------------------------------------------------------------
(* The Flask application's agent connection.                                *)

NoInstance == [instance |-> FALSE]

\* A handle that is None.
NoHandle == [handle |-> FALSE]

\* The handle agent_engines.get(resource_id) returns.
Handle(resource_id) == [handle |-> TRUE, resource_name |-> resource_id]

EnvNames ==
    {"GOOGLE_CLOUD_PROJECT", "GCP_PROJECT", "GOOGLE_CLOUD_LOCATION", "GCP_LOCATION",
     "AGENT_RESOURCE_ID", "PACKING_AGENT_RESOURCE_ID", "BUDGET_AGENT_RESOURCE_ID"}

\* An environment that sets none of the variables; os.getenv gives None,
\* which the model writes "".
NoEnvironment == [n \in EnvNames |-> ""]

\* Python's  a or b  on strings and None.
Or(a, b) == IF a # "" THEN a ELSE b

\* all([...]) on strings.
all(values) == \A v \in values : v # ""

\* The configuration AgentSingleton reads, with its hard-coded fallbacks.
configuration(env) ==
    [project_id |-> Or(env["GOOGLE_CLOUD_PROJECT"], Or(env["GCP_PROJECT"], "56426154949")),
     location |-> Or(env["GOOGLE_CLOUD_LOCATION"], Or(env["GCP_LOCATION"], "us-central1")),
     travel_agent_resource_id |->
        Or(env["AGENT_RESOURCE_ID"],
           "projects/56426154949/locations/us-central1/reasoningEngines/14940163998220288"),
     packing_agent_resource_id |->
        Or(env["PACKING_AGENT_RESOURCE_ID"],
           "projects/56426154949/locations/us-central1/reasoningEngines/2347206636650627072"),
     budget_agent_resource_id |->
        Or(env["BUDGET_AGENT_RESOURCE_ID"],
           "projects/56426154949/locations/us-central1/reasoningEngines/1494337457217339392")]

\* The instance the except branch leaves: every handle None.
FailedInstance ==
    [instance |-> TRUE, travel_agent |-> NoHandle, packing_agent |-> NoHandle,
     budget_agent |-> NoHandle, remote_agent |-> NoHandle, session_service |-> NoHandle]

\* The initialisation body of __new__; up says which of the remote calls
\* (vertexai.init and the agent_engines.get of each agent, the session
\* service's constructor) succeed.
initialise(env, up) ==
    LET c == configuration(env)
    IN  IF ~all({c.project_id, c.location, c.travel_agent_resource_id,
                 c.packing_agent_resource_id})
        THEN FailedInstance
        ELSE IF ~(up["vertexai"] /\ up["travel"] /\ up["packing"] /\ up["session_service"])
        THEN FailedInstance
        ELSE [instance |-> TRUE,
              travel_agent |-> Handle(c.travel_agent_resource_id),
              packing_agent |-> Handle(c.packing_agent_resource_id),
              budget_agent |-> IF c.budget_agent_resource_id # "" /\ up["budget"]
                               THEN Handle(c.budget_agent_resource_id) ELSE NoHandle,
              remote_agent |-> Handle(c.travel_agent_resource_id),
              session_service |-> Handle(c.project_id)]

needs_init_after_failure(instance) ==
    instance = NoInstance \/ instance = FailedInstance

\* if cls._instance is None
needs_init(instance) == instance = NoInstance

\* AgentSingleton(): __new__ runs the initialisation body on the first
\* construction and returns the stored instance on every one.
AgentSingleton(up) ==
    /\ IF needs_init(agent_connection)
       THEN /\ agent_connection' = initialise(environ, up)
            /\ init_runs' = init_runs + 1
       ELSE /\ agent_connection' = agent_connection
            /\ init_runs' = init_runs
    /\ resp' = [op |-> "AgentSingleton", initialised |-> needs_init(agent_connection),
                instance |-> agent_connection']
    /\ calls' = IF needs_init(agent_connection) THEN <<"vertexai.init">> ELSE <<>>
    /\ UNCHANGED <<deal_alerts, tasks, expenses, budgets, budget_plans, spending_patterns,
                   itineraries, state, clock, upstream, gen, sent,
                   environ, recommendations>>

\* The handle a request's agent_type selects.
selected_agent(agent_type) ==
    IF agent_type = "packing" THEN agent_connection.packing_agent
    ELSE IF agent_type = "budget" THEN agent_connection.budget_agent
    ELSE agent_connection.travel_agent

\* POST /api/sessions; created says whether the session service's
\* create_session returns or raises.
create_session(agent_type, created) ==
    /\ agent_connection # NoInstance
    /\ IF selected_agent(agent_type) = NoHandle
       THEN /\ resp' = [op |-> "create_session", code |-> 500,
                        error |-> "agent not initialized"]
            /\ calls' = <<>>
       ELSE IF agent_connection.session_service = NoHandle
       THEN /\ resp' = [op |-> "create_session", code |-> 500,
                        error |-> "Session service not initialized"]
            /\ calls' = <<>>
       ELSE /\ calls' = <<"session_service.create_session">>
            /\ resp' = IF created
                       THEN [op |-> "create_session", code |-> 201, error |-> ""]
                       ELSE [op |-> "create_session", code |-> 500,
                             error |-> "Failed to create session"]
    /\ UNCHANGED <<deal_alerts, tasks, expenses, budgets, budget_plans, spending_patterns,
                   itineraries, state, clock, upstream, gen, sent,
                   agent_connection, init_runs, environ, recommendations>>

-----------------------------------------------------------------------------
(* The streaming endpoints.  upstream is what the agent or the expense      *)
(* tracker will deliver: its items, and whether it raises once they are     *)
(* delivered.  gen is the position of the event_stream generator, sent is   *)
(* what the client has received.                                            *)

IdleGenerator == [endpoint |-> "", pos |-> 0, at |-> "idle"]

NoUpstream == <<>>

DataPrefix == <<"d", "a", "t", "a", ":", " ">>

FrameEnd == <<"\n", "\n">>

\* str.startswith
startswith(s, prefix) ==
    /\ Len(s) >= Len(prefix)
    /\ SubSeq(s, 1, Len(prefix)) = prefix

\* json.dumps of an event {"id": n} of the agent's stream_query.
json_dumps(event) == <<"{", "\"", "i", "d", "\"", ":", " ">> \o DecimalString(event.id) \o <<"}">>

\* json.dumps({"error": "An error occurred while streaming: ..."})
error_message == <<"{", "\"", "e", "r", "r", "o", "r", "\"", ":", " ", "\"",
                   "An error occurred while streaming: ", "boom", "\"", "}">>

\* The frame stream_chat yields for one event.
chat_frame(event) == DataPrefix \o json_dumps(event) \o FrameEnd

\* Whether expense_run_sse forwards a line of the upstream response.
forwards(line) == line # <<>> /\ startswith(line, DataPrefix)

\* The frame expense_run_sse yields for a forwarded line.
sse_frame(line) == line \o FrameEnd

except_handler_silent(frames) == frames

\* The except branch of both generators: one error frame is yielded.
except_handler(frames) == Append(frames, DataPrefix \o error_message \o FrameEnd)

\* The index of the first line after pos that expense_run_sse forwards, or 0.
NextForwarded(items, pos) ==
    LET later == {j \in (pos + 1)..Len(items) : forwards(items[j])}
    IN  IF later = {} THEN 0 ELSE CHOOSE j \in later : \A i \in later : j <= i

\* POST /api/sessions/<id>/stream: 400 without content, 500 without the
\* selected agent, else the response wraps the generator, which has not run
\* yet.  script is what the agent's stream_query will deliver.
stream_chat(data, script) ==
    /\ agent_connection # NoInstance
    /\ gen.at \in {"idle", "done"}
    /\ calls' = <<>>
    /\ IF data.content = ""
       THEN /\ resp' = [op |-> "stream_chat", data |-> data, code |-> 400]
            /\ UNCHANGED <<deal_alerts, tasks, upstream, gen, sent>>
       ELSE IF selected_agent(data.agent_type) = NoHandle
       THEN /\ resp' = [op |-> "stream_chat", data |-> data, code |-> 500]
            /\ UNCHANGED <<deal_alerts, tasks, upstream, gen, sent>>
       ELSE /\ upstream' = script
            /\ gen' = [endpoint |-> "stream_chat", pos |-> 0, at |-> "started"]
            /\ sent' = <<>>
            /\ resp' = [op |-> "stream_chat", data |-> data, code |-> 200]
    /\ UNCHANGED <<deal_alerts, tasks, expenses, budgets, budget_plans, spending_patterns,
                   itineraries, state, clock,
                   agent_connection, init_runs, environ, recommendations>>

\* One resumption of stream_chat's event_stream, up to its next yield or
\* its end; the first one calls the agent's stream_query.
stream_chat_event_stream ==
    /\ gen.endpoint = "stream_chat"
    /\ gen.at \in {"started", "yielded", "excepted"}
    /\ calls' = IF gen.at = "started" THEN <<"stream_query">> ELSE <<>>
    /\ resp' = [op |-> "event_stream", endpoint |-> gen.endpoint]
    /\ IF gen.at = "excepted"
       THEN /\ gen' = [gen EXCEPT !.at = "done"]
            /\ sent' = sent
       ELSE IF gen.pos < Len(upstream.items)
       THEN /\ gen' = [gen EXCEPT !.pos = gen.pos + 1, !.at = "yielded"]
            /\ sent' = Append(sent, chat_frame(upstream.items[gen.pos + 1]))
       ELSE IF upstream.raises
       THEN /\ gen' = [gen EXCEPT !.at = "excepted"]
            /\ sent' = except_handler(sent)
       ELSE /\ gen' = [gen EXCEPT !.at = "done"]
            /\ sent' = sent
    /\ UNCHANGED <<deal_alerts, tasks, expenses, budgets, budget_plans, spending_patterns,
                   itineraries, state, clock, upstream,
                   agent_connection, init_runs, environ, recommendations>>

missing_message_only(data) == data.message = ""

\* if not all([app_name, session_id, message_text])
missing_fields(data) == ~all({data.app_name, data.session_id, data.message})

\* POST /api/expense/run: 400 unless app_name, session_id and message are
\* all given; else one POST to the expense tracker, whose failure is a 500.
expense_run(data, posted) ==
    /\ IF missing_fields(data)
       THEN /\ resp' = [op |-> "expense_run", data |-> data, code |-> 400]
            /\ calls' = <<>>
       ELSE /\ calls' = <<"POST /run">>
            /\ resp' = [op |-> "expense_run", data |-> data, code |-> IF posted THEN 200 ELSE 500]
    /\ UNCHANGED <<deal_alerts, tasks, expenses, budgets, budget_plans, spending_patterns,
                   itineraries, state, clock, upstream, gen, sent,
                   agent_connection, init_runs, environ, recommendations>>

\* POST /api/expense/run_sse: 400 unless app_name, session_id and message
\* are all given; else the response wraps the generator.
expense_run_sse(data, script) ==
    /\ gen.at \in {"idle", "done"}
    /\ calls' = <<>>
    /\ IF missing_fields(data)
       THEN /\ resp' = [op |-> "expense_run_sse", data |-> data, code |-> 400]
            /\ UNCHANGED <<deal_alerts, tasks, upstream, gen, sent>>
       ELSE /\ upstream' = script
            /\ gen' = [endpoint |-> "expense_run_sse", pos |-> 0, at |-> "started"]
            /\ sent' = <<>>
            /\ resp' = [op |-> "expense_run_sse", data |-> data, code |-> 200]
    /\ UNCHANGED <<deal_alerts, tasks, expenses, budgets, budget_plans, spending_patterns,
                   itineraries, state, clock,
                   agent_connection, init_runs, environ, recommendations>>

\* One resumption of expense_run_sse's event_stream: the first one posts
\* the request; lines are read until one is forwarded, the response ends or
\* it raises.
expense_run_sse_event_stream ==
    /\ gen.endpoint = "expense_run_sse"
    /\ gen.at \in {"started", "yielded", "excepted"}
    /\ calls' = IF gen.at = "started" THEN <<"POST /run_sse">> ELSE <<>>
    /\ resp' = [op |-> "event_stream", endpoint |-> gen.endpoint]
    /\ LET j == NextForwarded(upstream.items, gen.pos)
       IN  IF gen.at = "excepted"
           THEN /\ gen' = [gen EXCEPT !.at = "done"]
                /\ sent' = sent
           ELSE IF j # 0
           THEN /\ gen' = [gen EXCEPT !.pos = j, !.at = "yielded"]
                /\ sent' = Append(sent, sse_frame(upstream.items[j]))
           ELSE IF upstream.raises
           THEN /\ gen' = [gen EXCEPT !.pos = Len(upstream.items), !.at = "excepted"]
                /\ sent' = except_handler(sent)
           ELSE /\ gen' = [gen EXCEPT !.pos = Len(upstream.items), !.at = "done"]
                /\ sent' = sent
    /\ UNCHANGED <<deal_alerts, tasks, expenses, budgets, budget_plans, spending_patterns,
                   itineraries, state, clock, upstream,
                   agent_connection, init_runs, environ, recommendations>>

-----------------------------------------------------------------------------
(* The packing agent's weather tool.  Destinations are sequences of         *)
(* characters; a date is the record strptime gives.                         *)

LowerCase ==
       ("A" :> "a") @@ ("B" :> "b") @@ ("C" :> "c") @@ ("D" :> "d") @@ ("E" :> "e") @@ ("F" :> "f")
    @@ ("G" :> "g") @@ ("H" :> "h") @@ ("I" :> "i") @@ ("J" :> "j") @@ ("K" :> "k") @@ ("L" :> "l")
    @@ ("M" :> "m") @@ ("N" :> "n") @@ ("O" :> "o") @@ ("P" :> "p") @@ ("Q" :> "q") @@ ("R" :> "r")
    @@ ("S" :> "s") @@ ("T" :> "t") @@ ("U" :> "u") @@ ("V" :> "v") @@ ("W" :> "w") @@ ("X" :> "x")
    @@ ("Y" :> "y") @@ ("Z" :> "z")

\* str.lower()
lower(s) == [i \in 1..Len(s) |-> IF s[i] \in DOMAIN LowerCase THEN LowerCase[s[i]] ELSE s[i]]

\* sub in s
contains(s, sub) ==
    \E i \in 1..(Len(s) - Len(sub) + 1) : SubSeq(s, i, i + Len(sub) - 1) = sub

\* The place names of the tool's tables, as character sequences.
Place ==
    ("bangalore" :> <<"b", "a", "n", "g", "a", "l", "o", "r", "e">>)
     @@ ("chennai" :> <<"c", "h", "e", "n", "n", "a", "i">>)
     @@ ("darjeeling" :> <<"d", "a", "r", "j", "e", "e", "l", "i", "n", "g">>)
     @@ ("delhi" :> <<"d", "e", "l", "h", "i">>)
     @@ ("goa" :> <<"g", "o", "a">>)
     @@ ("himachal" :> <<"h", "i", "m", "a", "c", "h", "a", "l">>)
     @@ ("hyderabad" :> <<"h", "y", "d", "e", "r", "a", "b", "a", "d">>)
     @@ ("india" :> <<"i", "n", "d", "i", "a">>)
     @@ ("jaipur" :> <<"j", "a", "i", "p", "u", "r">>)
     @@ ("jodhpur" :> <<"j", "o", "d", "h", "p", "u", "r">>)
     @@ ("kashmir" :> <<"k", "a", "s", "h", "m", "i", "r">>)
     @@ ("kerala" :> <<"k", "e", "r", "a", "l", "a">>)
     @@ ("kodaikanal" :> <<"k", "o", "d", "a", "i", "k", "a", "n", "a", "l">>)
     @@ ("kolkata" :> <<"k", "o", "l", "k", "a", "t", "a">>)
     @@ ("ladakh" :> <<"l", "a", "d", "a", "k", "h">>)
     @@ ("manali" :> <<"m", "a", "n", "a", "l", "i">>)
     @@ ("mumbai" :> <<"m", "u", "m", "b", "a", "i">>)
     @@ ("ooty" :> <<"o", "o", "t", "y">>)
     @@ ("pune" :> <<"p", "u", "n", "e">>)
     @@ ("rajasthan" :> <<"r", "a", "j", "a", "s", "t", "h", "a", "n">>)
     @@ ("shimla" :> <<"s", "h", "i", "m", "l", "a">>)

\* any(x in destination_lower for x in [...])
any_in(destination_lower, places) ==
    \E x \in places : contains(destination_lower, Place[x])

\* temp_map, in the order of the dict.
temp_map ==
    << <<"mumbai", 28>>,
       <<"delhi", 25>>,
       <<"bangalore", 22>>,
       <<"chennai", 30>>,
       <<"kolkata", 27>>,
       <<"hyderabad", 26>>,
       <<"pune", 24>>,
       <<"jaipur", 26>>,
       <<"goa", 29>>,
       <<"kerala", 28>>,
       <<"rajasthan", 30>>,
       <<"himachal", 15>>,
       <<"kashmir", 10>>,
       <<"ladakh", 5>>,
       <<"manali", 12>>,
       <<"shimla", 15>>,
       <<"darjeeling", 18>>,
       <<"ooty", 20>>,
       <<"kodaikanal", 19>> >>

DefaultTemperature == 25

\* _get_base_temperature: the first city of temp_map the destination names.
_get_base_temperature(destination) ==
    LET hits == {k \in 1..Len(temp_map) : contains(lower(destination), Place[temp_map[k][1]])}
    IN  IF hits = {} THEN DefaultTemperature
        ELSE temp_map[CHOOSE k \in hits : \A j \in hits : k <= j][2]

\* _determine_climate_zone
_determine_climate_zone(destination) ==
    LET d == lower(destination)
    IN  IF any_in(d, {"mumbai", "goa", "kerala", "chennai"}) THEN "coastal"
        ELSE IF any_in(d, {"rajasthan", "jaipur", "jodhpur"}) THEN "desert"
        ELSE IF any_in(d, {"himachal", "kashmir", "ladakh", "manali"}) THEN "mountain"
        ELSE IF any_in(d, {"mumbai", "kolkata"}) THEN "monsoon"
        ELSE "temperate"

\* _get_precipitation_chance: the values random.randint lets it return.
_get_precipitation_chance(destination, month) ==
    IF month \in {6, 7, 8, 9} /\ any_in(lower(destination), {"mumbai", "kerala", "goa"})
    THEN {70 + r : r \in (-10)..20}
    ELSE IF month \in {12, 1, 2} THEN {10 + r : r \in 0..20}
    ELSE {30 + r : r \in (-10)..30}

\* _get_weather_description
_get_weather_description(destination, month, day) ==
    LET d == lower(destination)
    IN  IF month \in {6, 7, 8, 9} /\ any_in(d, {"mumbai", "kerala"})
        THEN <<"Heavy Rain", "Light Rain", "Cloudy", "Partly Cloudy">>[(day % 4) + 1]
        ELSE IF any_in(d, {"rajasthan", "jaipur"})
        THEN <<"Sunny", "Clear", "Hot", "Partly Cloudy">>[(day % 4) + 1]
        ELSE IF any_in(d, {"himachal", "kashmir"})
        THEN <<"Clear", "Cloudy", "Light Snow", "Partly Cloudy">>[(day % 4) + 1]
        ELSE <<"Sunny", "Partly Cloudy", "Cloudy", "Light Rain">>[(day % 4) + 1]

\* _get_seasonal_notes
_get_seasonal_notes(destination, month) ==
    LET d == lower(destination)
    IN  IF month \in {6, 7, 8, 9} /\ any_in(d, {"mumbai", "kerala", "goa"})
        THEN "Monsoon season - expect heavy rainfall and high humidity. Waterproof items essential."
        ELSE IF month \in {12, 1, 2} /\ any_in(d, {"delhi", "rajasthan", "himachal"})
        THEN "Winter season - temperatures can drop significantly, especially at night. Layer clothing recommended."
        ELSE IF month \in {3, 4, 5} /\ any_in(d, {"rajasthan", "delhi"})
        THEN "Summer season - very hot and dry. Light, breathable clothing and sun protection essential."
        ELSE "Pleasant weather expected for most of the trip."

Max(S) == CHOOSE x \in S : \A y \in S : y <= x

Min(S) == CHOOSE x \in S : \A y \in S : x <= y

\* _get_packing_implications of a forecast that is not empty.
_get_packing_implications(forecast_days, climate_zone) ==
    LET n == Len(forecast_days)
        max_temp == Max({forecast_days[k].temperature_max : k \in 1..n})
        min_temp == Min({forecast_days[k].temperature_min : k \in 1..n})
        rainy_days == Cardinality({k \in 1..n : forecast_days[k].precipitation_chance > 50})
        humidity == [k \in 1..n |-> [amount |-> forecast_days[k].humidity]]
    IN  (IF max_temp > 30 THEN <<"Pack light, breathable clothing for hot weather",
                                "Sunscreen and hat essential for UV protection">> ELSE <<>>)
        \o (IF min_temp < 15 THEN <<"Pack warm layers for cold temperatures",
                                   "Jacket or sweater recommended for evenings">> ELSE <<>>)
        \o (IF rainy_days > 2 THEN <<"Waterproof clothing and umbrella necessary",
                                     "Quick-dry fabrics recommended">> ELSE <<>>)
        \o (IF SeqSum(humidity) > 70 * n
            THEN <<"Moisture-wicking fabrics recommended for high humidity",
                   "Extra underwear and socks for frequent changes">> ELSE <<>>)

\* current_date += timedelta(days=1)
next_day(d) ==
    IF d.day < DaysInMonth(d.year, d.month) THEN [d EXCEPT !.day = d.day + 1]
    ELSE IF d.month < 12 THEN [d EXCEPT !.month = d.month + 1, !.day = 1]
    ELSE [d EXCEPT !.year = d.year + 1, !.month = 1, !.day = 1]

RECURSIVE days_until(_, _)
\* The dates the while loop visits: current_date, ..., end.
days_until(current_date, end) ==
    IF DateNum(current_date) > DateNum(end) THEN <<>>
    ELSE <<current_date>> \o days_until(next_day(current_date), end)

\* The forecast of one day, with the precipitation chance drawn for it.
day_forecast(destination, d, precipitation_chance) ==
    LET base_temp == _get_base_temperature(destination)
        winter == d.month \in {12, 1, 2}
        monsoon == d.month \in {6, 7, 8, 9} /\ contains(lower(destination), Place["india"])
        min_temp == base_temp - 5 + (d.day % 3)
        max_temp == base_temp + 5 + (d.day % 4)
    IN  [date |-> date_isoformat(d),
         temperature_min |-> IF winter THEN min_temp - 5
                             ELSE IF monsoon THEN min_temp + 2 ELSE min_temp,
         temperature_max |-> IF winter THEN max_temp - 3
                             ELSE IF monsoon THEN max_temp - 2 ELSE max_temp,
         humidity |-> 60 + (d.day % 30),
         precipitation_chance |-> precipitation_chance,
         weather_description |-> _get_weather_description(destination, d.month, d.day),
         wind_speed |-> 10 + (d.day % 15),
         uv_index |-> Max({1, Min({11, 6 + (d.day % 6)})})]

\* What get_weather_forecast can return: an error for a malformed date, a
\* ValueError from max() of an empty forecast when the end is before the
\* start, else one forecast for each way the random draws can fall.
weather_forecasts(destination, start_date, end_date) ==
    IF ~strptime(start_date).ok \/ ~strptime(end_date).ok
    THEN {[raised |-> "", error |-> "Invalid date format. Use YYYY-MM-DD"]}
    ELSE LET days == days_until(strptime(start_date), strptime(end_date))
             n == Len(days)
             chances == UNION {_get_precipitation_chance(destination, days[k].month) : k \in 1..n}
             draws == {p \in [1..n -> chances] :
                         \A k \in 1..n :
                            p[k] \in _get_precipitation_chance(destination, days[k].month)}
         IN  IF n = 0 THEN {[raised |-> "ValueError", error |-> ""]}
             ELSE { LET forecast_days == [k \in 1..n |-> day_forecast(destination, days[k], p[k])]
                        climate_zone == _determine_climate_zone(destination)
                    IN  [raised |-> "", error |-> "",
                         location |-> destination,
                         forecast_days |-> forecast_days,
                         climate_zone |-> climate_zone,
                         seasonal_notes |-> _get_seasonal_notes(destination, strptime(start_date).month),
                         packing_implications |->
                            _get_packing_implications(forecast_days, climate_zone)]
                    : p \in draws }

\* get_weather_forecast(destination, start_date, end_date, tool_context)
get_weather_forecast(destination, start_date, end_date) ==
    /\ \E out \in weather_forecasts(destination, start_date, end_date) :
          resp' = [op |-> "get_weather_forecast",
                   request |-> <<destination, start_date, end_date>>, out |-> out]
    /\ UNCHANGED <<deal_alerts, tasks, agent_connection, init_runs, environ, calls, recommendations,
                   expenses, budgets, budget_plans, spending_patterns,
                   itineraries, state, clock, upstream, gen, sent>>

-----------------------------------------------------------------------------
(* The planning agent's budget optimizer.  The itinerary in the session     *)
(* state is a tree of Map, List and Leaf nodes; prices are whole rupees and *)
(* the amounts of a suggestion are in hundredths of a rupee.                *)

\* d.get(key, default) of a Map node, as the value of the Leaf found.
get(node, key, default) ==
    IF key \in DOMAIN node.fields THEN node.fields[key].value ELSE default

\* itinerary.get('days') is truthy: a list that is not empty.
has_days(itinerary) ==
    /\ "days" \in DOMAIN itinerary.fields
    /\ itinerary.fields["days"].kind = "list"
    /\ itinerary.fields["days"].items # <<>>

\* day.get('events', [])
events_of_day(day) ==
    IF "events" \in DOMAIN day.fields THEN day.fields["events"].items ELSE <<>>

RECURSIVE events_of(_)
\* The events the two nested loops visit, in order.
events_of(days) ==
    IF days = <<>> THEN <<>> ELSE events_of_day(days[1]) \o events_of(Tail(days))

\* event.get('eventType') == kind and event.get('price')
priced(event, kind) == get(event, "eventType", "") = kind /\ get(event, "price", 0) # 0

\* random.uniform(lo / 100, hi / 100), at the whole percents of its range.
uniform(lo, hi) == lo..hi

NoSuggestions == [suggestions |-> <<>>, total_savings |-> 0]

\* The f-string of a suggestion, as the values it interpolates.
suggestion(kind, subject, difference, price) ==
    [kind |-> kind, subject |-> subject, difference |-> difference, price |-> price]

RECURSIVE flight_loop(_)
\* The first loop: every way its random.uniform draws can fall.
flight_loop(events) ==
    IF events = <<>> THEN {NoSuggestions}
    ELSE IF ~priced(events[1], "flight") THEN flight_loop(Tail(events))
    ELSE LET original_price == 100 * get(events[1], "price", 0)
         IN  { LET cheaper_price == get(events[1], "price", 0) * factor
                   savings == original_price - cheaper_price
               IN  [suggestions |->
                       <<suggestion("Flight Suggestion", get(events[1], "flightNumber", ""),
                                    savings, cheaper_price)>> \o rest.suggestions,
                    total_savings |-> savings + rest.total_savings]
               : factor \in uniform(75, 90), rest \in flight_loop(Tail(events)) }

\* One hotel's suggestion: random.choice, then the random.uniform of the branch.
hotel_suggestions(event) ==
    LET original_price == 100 * get(event, "price", 0)
    IN  { [suggestion |-> suggestion("Hotel Suggestion: cheaper", get(event, "description", ""),
                                     original_price - get(event, "price", 0) * factor,
                                     get(event, "price", 0) * factor),
           savings |-> original_price - get(event, "price", 0) * factor]
          : factor \in uniform(80, 95) }
        \cup
        { [suggestion |-> suggestion("Hotel Suggestion: better_value", get(event, "description", ""),
                                     get(event, "price", 0) * factor - original_price,
                                     get(event, "price", 0) * factor),
           savings |-> 0]
          : factor \in uniform(100, 110) }

RECURSIVE hotel_loop(_)
\* The second loop.
hotel_loop(events) ==
    IF events = <<>> THEN {NoSuggestions}
    ELSE IF ~priced(events[1], "hotel") THEN hotel_loop(Tail(events))
    ELSE { [suggestions |-> <<one.suggestion>> \o rest.suggestions,
            total_savings |-> one.savings + rest.total_savings]
           : one \in hotel_suggestions(events[1]), rest \in hotel_loop(Tail(events)) }

\* What intelligent_budget_optimizer can return for the itinerary in state.
budget_optimizations(itinerary) ==
    IF ~TruthyValue(itinerary) \/ ~has_days(itinerary)
    THEN {[error |-> "No itinerary found to optimize."]}
    ELSE LET events == events_of(itinerary.fields["days"].items)
         IN  { IF flights.suggestions \o hotels.suggestions = <<>>
               THEN [status |-> "No obvious savings found, the itinerary is already well-optimized."]
               ELSE [status |-> "success",
                     potential_savings |-> flights.total_savings + hotels.total_savings,
                     suggestions |-> flights.suggestions \o hotels.suggestions]
               : flights \in flight_loop(events), hotels \in hotel_loop(events) }

\* intelligent_budget_optimizer(tool_context)
intelligent_budget_optimizer ==
    /\ \E out \in budget_optimizations(state.itinerary) :
          resp' = [op |-> "intelligent_budget_optimizer",
                   request |-> state.itinerary, out |-> out]
    /\ UNCHANGED <<deal_alerts, tasks, agent_connection, init_runs, environ, calls, recommendations,
                   expenses, budgets, budget_plans, spending_patterns,
                   itineraries, state, clock, upstream, gen, sent>>

-----------------------------------------------------------------------------
(* The budget optimizer's recommendations.  A recommendation is a dict, so  *)
(* a record whose fields may be absent.                                     *)

\* save_recommendation(recommendation): created_at is set and the dict is
\* added under a fresh automatic id.
save_recommendation(recommendation, now) ==
    /\ \E id \in FreeIds(recommendations) :
          /\ recommendations' = [recommendations EXCEPT ![id] =
                [k \in DOMAIN recommendation \cup {"created_at"} |->
                    IF k = "created_at" THEN isoformat(now) ELSE recommendation[k]]]
          /\ resp' = [op |-> "save_recommendation", id |-> id]
    /\ UNCHANGED <<deal_alerts, tasks, agent_connection, init_runs, environ, calls,
                   expenses, budgets, budget_plans, spending_patterns,
                   itineraries, state, clock, upstream, gen, sent>>

\* A missing priority ranked as the highest of the scale.
priority_missing_is_highest(x) == IF "priority" \in DOMAIN x THEN x.priority ELSE 10

\* x.get("priority", 0)
priority_of(x) == IF "priority" \in DOMAIN x THEN x.priority ELSE 0

\* The docs of query.get(), in the order of their ids, each as
\* {"id": doc.id, **data}; a trip_id that is None or empty does not filter.
recommendation_docs(recs, trip_id) ==
    LET S == {id \in Existing(recs) :
                (trip_id # Nothing /\ trip_id[1] # "")
                    => ("trip_id" \in DOMAIN recs[id] /\ recs[id].trip_id = trip_id[1])}
    IN  [k \in 1..Cardinality(S) |->
            LET id == CHOOSE i \in S : Cardinality({j \in S : j < i}) = k - 1
            IN  [f \in DOMAIN recs[id] \cup {"id"} |->
                    IF f \in DOMAIN recs[id] THEN recs[id][f] ELSE id]]

RECURSIVE sort_reverse(_)
\* list.sort(key=priority, reverse=True): stable, so the last doc goes after
\* every doc of the rest whose priority is not lower.
sort_reverse(docs) ==
    IF docs = <<>> THEN <<>>
    ELSE LET rest == sort_reverse(SubSeq(docs, 1, Len(docs) - 1))
             x == docs[Len(docs)]
             n == Cardinality({k \in 1..Len(rest) : priority_of(rest[k]) >= priority_of(x)})
         IN  SubSeq(rest, 1, n) \o <<x>> \o SubSeq(rest, n + 1, Len(rest))

\* seq[:limit]
slice_to(seq, limit) ==
    IF limit >= 0 THEN SubSeq(seq, 1, IF limit < Len(seq) THEN limit ELSE Len(seq))
    ELSE SubSeq(seq, 1, IF Len(seq) + limit > 0 THEN Len(seq) + limit ELSE 0)

\* get_recommendations(trip_id, limit)
get_recommendations(trip_id, limit) ==
    /\ resp' = [op |-> "get_recommendations", request |-> <<trip_id, limit>>,
                out |-> slice_to(sort_reverse(recommendation_docs(recommendations, trip_id)),
                                 limit)]
    /\ UNCHANGED <<deal_alerts, tasks, agent_connection, init_runs, environ, calls, recommendations,
                   expenses, budgets, budget_plans, spending_patterns,
                   itineraries, state, clock, upstream, gen, sent>>

-----------------------------------------------------------------------------
(* The deal finder's alerts.  An alert is a dict, so a record whose fields  *)
(* may be absent.                                                           *)

\* save_deal_alert(deal_alert) into the collection alerts: created_at is set
\* and the dict is added under the automatic id.
save_deal_alert(alerts, id, deal_alert, now) ==
    [alerts EXCEPT ![id] =
        [k \in DOMAIN deal_alert \cup {"created_at"} |->
            IF k = "created_at" THEN isoformat(now) ELSE deal_alert[k]]]

\* where("expires_at", ">=", today): a document without the field does not
\* match an inequality filter on it.
active(doc, today) ==
    "expires_at" \in DOMAIN doc /\ StrLeq(today, doc.expires_at)

\* get_deal_alerts(trip_id, active_only): the matching documents in the order
\* of their ids, each as {"id": doc.id, **data}.
get_deal_alerts(alerts, trip_id, active_only, now) ==
    LET S == {id \in Existing(alerts) :
                /\ (trip_id # Nothing /\ trip_id[1] # "")
                      => ("trip_id" \in DOMAIN alerts[id] /\ alerts[id].trip_id = trip_id[1])
                /\ active_only => active(alerts[id], isoformat(now))}
    IN  [k \in 1..Cardinality(S) |->
            LET id == CHOOSE i \in S : Cardinality({j \in S : j < i}) = k - 1
            IN  [f \in DOMAIN alerts[id] \cup {"id"} |->
                    IF f \in DOMAIN alerts[id] THEN alerts[id][f] ELSE id]]

\* save_deals_to_firestore(deals, trip_id): every deal is saved, with the
\* trip_id put in when one is given.
save_deals_to_firestore(deals, trip_id, now) ==
    /\ Len(deals) <= Cardinality(FreeIds(deal_alerts))
    /\ \E ids \in [1..Len(deals) -> FreeIds(deal_alerts)] :
          /\ \A i, j \in 1..Len(deals) : i # j => ids[i] # ids[j]
          /\ deal_alerts' =
                [id \in DealIds |->
                    IF \E k \in 1..Len(deals) : ids[k] = id
                    THEN LET k == CHOOSE k \in 1..Len(deals) : ids[k] = id
                             deal == IF trip_id # Nothing /\ trip_id[1] # ""
                                     THEN [f \in DOMAIN deals[k] \cup {"trip_id"} |->
                                              IF f = "trip_id" THEN trip_id[1] ELSE deals[k][f]]
                                     ELSE deals[k]
                         IN  save_deal_alert(deal_alerts, id, deal, now)[id]
                    ELSE deal_alerts[id]]
          /\ resp' = [op |-> "save_deals_to_firestore", saved_ids |-> ids]
    /\ UNCHANGED <<tasks, agent_connection, init_runs, environ, calls, recommendations,
                   expenses, budgets, budget_plans, spending_patterns,
                   itineraries, state, clock, upstream, gen, sent>>

\* The deals of existing_deals the loop returns at: those of the item type
\* with a truthy deal_price above the current price.
price_drops(existing_deals, item_type, current_price) ==
    {k \in 1..Len(existing_deals) :
        /\ "deal_type" \in DOMAIN existing_deals[k]
        /\ existing_deals[k].deal_type = item_type
        /\ "deal_price" \in DOMAIN existing_deals[k]
        /\ existing_deals[k].deal_price # 0
        /\ current_price < existing_deals[k].deal_price}

\* track_price_changes(trip_id, item_type, item_name, current_price)
track_price_changes(trip_id, item_type, item_name, current_price, now) ==
    LET existing_deals == get_deal_alerts(deal_alerts, Some(trip_id), TRUE, now)
        drops == price_drops(existing_deals, item_type, current_price)
        request == [trip_id |-> trip_id, item_type |-> item_type,
                    item_name |-> item_name, current_price |-> current_price]
        deal_data == [trip_id |-> trip_id, deal_type |-> item_type,
                      title |-> <<"Price Alert", item_name>>,
                      description |-> <<"Current price", current_price>>,
                      original_price |-> current_price, deal_price |-> current_price,
                      savings_amount |-> 0, savings_percent |-> 0,
                      source |-> "price_tracker"]
    IN  IF drops # {}
        THEN /\ resp' = [op |-> "track_price_changes", request |-> request,
                         message |-> "Price drop detected!", now |-> current_price,
                         was |-> existing_deals[CHOOSE k \in drops :
                                                   \A j \in drops : k <= j].deal_price]
             /\ UNCHANGED <<deal_alerts, tasks, agent_connection, init_runs, environ, calls,
                            recommendations, expenses, budgets, budget_plans,
                            spending_patterns, itineraries, state, clock, upstream, gen, sent>>
        ELSE /\ \E id \in FreeIds(deal_alerts) :
                   deal_alerts' = save_deal_alert(deal_alerts, id, deal_data, now)
             /\ resp' = [op |-> "track_price_changes", request |-> request,
                         message |-> "Price tracking started", now |-> current_price,
                         was |-> current_price]
             /\ UNCHANGED <<tasks, agent_connection, init_runs, environ, calls,
                            recommendations, expenses, budgets, budget_plans,
                            spending_patterns, itineraries, state, clock, upstream, gen, sent>>

-----------------------------------------------------------------------------
(* The recommender's preferences and budget prediction.                     *)

\* get_spending_patterns(user_id, period): the user's documents in the order
\* of their ids, each as {"id": doc.id, **data}.
get_spending_patterns(patterns, user_id, period) ==
    LET S == {id \in Existing(patterns) :
                /\ "user_id" \in DOMAIN patterns[id]
                /\ patterns[id].user_id = user_id
                /\ (period # Nothing /\ period[1] # "")
                      => ("period" \in DOMAIN patterns[id] /\ patterns[id].period = period[1])}
    IN  [k \in 1..Cardinality(S) |->
            LET id == CHOOSE i \in S : Cardinality({j \in S : j < i}) = k - 1
            IN  [f \in DOMAIN patterns[id] \cup {"id"} |->
                    IF f \in DOMAIN patterns[id] THEN patterns[id][f] ELSE id]]

\* learn_preferences: the preferences are saved as a document of the
\* spending patterns collection, with period "preferences".  The threshold
\* is in percent.
learn_preferences(user_id, category, preferred_price_range, preferred_savings_threshold, now) ==
    /\ \E id \in FreeIds(spending_patterns) :
          spending_patterns' = [spending_patterns EXCEPT ![id] =
             [user_id |-> user_id,
              period |-> "preferences",
              preferences |-> [user_id |-> user_id, category |-> category,
                               preferred_price_range |-> preferred_price_range,
                               preferred_savings_threshold |-> preferred_savings_threshold,
                               learned_at |-> isoformat(now)],
              created_at |-> isoformat(now)]]
    /\ resp' = [op |-> "learn_preferences", message |-> "Preferences learned",
                category |-> category, threshold |-> preferred_savings_threshold]
    /\ UNCHANGED <<deal_alerts, tasks, agent_connection, init_runs, environ, calls,
                   recommendations, expenses, budgets, budget_plans,
                   itineraries, state, clock, upstream, gen, sent>>

\* The default estimates of a day; amounts are exact quotients throughout.
default_estimates ==
    ("Food" :> Quotient(500, 1)) @@ ("Transport" :> Quotient(300, 1))
        @@ ("Activities" :> Quotient(400, 1)) @@ ("Misc" :> Quotient(200, 1))

\* default_daily: the default estimates without a pattern, else the share of
\* each category of the first pattern's breakdown in its average daily
\* spending, as exact quotients.
daily_estimates(patterns) ==
    IF patterns = <<>> THEN default_estimates
    ELSE LET pattern == patterns[1]
             avg_daily == IF "average_daily_spending" \in DOMAIN pattern
                          THEN pattern.average_daily_spending ELSE Quotient(0, 1)
             category_breakdown == IF "category_breakdown" \in DOMAIN pattern
                                   THEN pattern.category_breakdown ELSE EmptyDict
             total == IF DOMAIN category_breakdown # {}
                      THEN SumOf(category_breakdown, DOMAIN category_breakdown) ELSE 1
         IN  [cat \in DOMAIN category_breakdown |->
                 IF total > 0
                 THEN Quotient(category_breakdown[cat] * avg_daily.num, total * avg_daily.den)
                 ELSE Quotient(avg_daily.num,
                               avg_daily.den * Cardinality(DOMAIN category_breakdown))]

\* daily_amount * duration_days
times(daily_amount, duration_days) ==
    Quotient(daily_amount.num * duration_days, daily_amount.den)

\* sum(amounts.values()): the amounts of one dict share their denominator.
sum_values(amounts) ==
    IF DOMAIN amounts = {} THEN Quotient(0, 1)
    ELSE Quotient(SumOf([cat \in DOMAIN amounts |-> amounts[cat].num], DOMAIN amounts),
                  amounts[CHOOSE cat \in DOMAIN amounts : TRUE].den)

\* predict_budget_needs(destination, duration_days, user_id)
predict_budget_needs(destination, duration_days, user_id) ==
    LET patterns == get_spending_patterns(spending_patterns, user_id, Nothing)
        default_daily == daily_estimates(patterns)
    IN  /\ resp' = [op |-> "predict_budget_needs",
                    request |-> [destination |-> destination,
                                 duration_days |-> duration_days, user_id |-> user_id],
                    out |-> [destination |-> destination,
                             duration_days |-> duration_days,
                             predicted_daily_budget |-> sum_values(default_daily),
                             predicted_total_budget |->
                                times(sum_values(default_daily), duration_days),
                             category_breakdown |->
                                [cat \in DOMAIN default_daily |->
                                    times(default_daily[cat], duration_days)],
                             confidence |-> IF patterns # <<>> THEN "medium" ELSE "low",
                             based_on_history |-> Len(patterns) > 0]]
        /\ UNCHANGED <<deal_alerts, tasks, agent_connection, init_runs, environ, calls,
                       recommendations, expenses, budgets, budget_plans, spending_patterns,
                       itineraries, state, clock, upstream, gen, sent>>

-----------------------------------------------------------------------------
(* Tool calls that overlap.  A call is split where it awaits Firestore: the *)
(* read that decides what is written, then the write.  tasks holds, for     *)
(* each call in flight, what it has read so far.                            *)

\* A session that is not inside a tool call; st is its tool_context.state.
SessionTask(st) == [at |-> "idle", state |-> st]

\* save_itinerary_to_firestore up to doc = doc_ref.get(), in the session of
\* task t.
save_itinerary_get(t) ==
    LET session == tasks[t].state
        itinerary == session.itinerary
        user_id == IF session.user_id = "" THEN "default_user" ELSE session.user_id
    IN  /\ tasks[t].at = "idle"
        /\ IF ~TruthyValue(itinerary)
           THEN /\ resp' = [op |-> "save_itinerary_to_firestore", status |-> "error",
                            message |-> "No itinerary found in the current state to save."]
                /\ UNCHANGED tasks
           ELSE /\ tasks' = [tasks EXCEPT ![t] =
                      [at |-> "doc_ref.set", state |-> session, user_id |-> user_id,
                       exists |-> itineraries[user_id] # NoDoc]]
                /\ resp' = [op |-> "doc_ref.get", user_id |-> user_id]
        /\ UNCHANGED <<deal_alerts, agent_connection, init_runs, environ, calls,
                       recommendations, expenses, budgets, budget_plans, spending_patterns,
                       itineraries, state, clock, upstream, gen, sent>>

\* save_itinerary_to_firestore from doc_ref.set(itinerary_data, merge=True)
\* to its return; failed says whether the write raised.
save_itinerary_set(t, failed) ==
    LET session == tasks[t].state
        user_id == tasks[t].user_id
        itinerary_data ==
            ("itinerary" :> session.itinerary) @@ ("user_id" :> Leaf(user_id))
                @@ ("updated_at" :> Leaf(clock + 1))
                @@ (IF ~tasks[t].exists THEN ("created_at" :> Leaf(clock + 1)) ELSE EmptyDict)
    IN  /\ tasks[t].at = "doc_ref.set"
        /\ IF failed
           THEN /\ resp' = [op |-> "save_itinerary_to_firestore", status |-> "error",
                            message |-> "Failed to save itinerary to Firestore"]
                /\ tasks' = [tasks EXCEPT ![t] = SessionTask(session)]
                /\ UNCHANGED <<itineraries, clock>>
           ELSE /\ clock < MaxClock
                /\ clock' = clock + 1
                /\ itineraries' = [itineraries EXCEPT ![user_id] =
                                      SetMerge(itineraries[user_id], itinerary_data)]
                /\ tasks' = [tasks EXCEPT ![t] =
                      SessionTask([session EXCEPT !.itinerary_persisted = TRUE,
                                                  !.itinerary_firestore_id = user_id])]
                /\ resp' = [op |-> "save_itinerary_to_firestore", status |-> "success",
                            user_id |-> user_id]
        /\ UNCHANGED <<deal_alerts, agent_connection, init_runs, environ, calls,
                       recommendations, expenses, budgets, budget_plans, spending_patterns,
                       state, upstream, gen, sent>>

\* The itinerary agent of the session of task t.
session_itinerary_agent(t, itinerary) ==
    /\ tasks[t].at = "idle"
    /\ tasks' = [tasks EXCEPT ![t] = SessionTask([tasks[t].state EXCEPT !.itinerary = itinerary])]
    /\ resp' = [op |-> "itinerary_agent"]
    /\ UNCHANGED <<deal_alerts, agent_connection, init_runs, environ, calls,
                   recommendations, expenses, budgets, budget_plans, spending_patterns,
                   itineraries, state, clock, upstream, gen, sent>>

\* update_expense up to the call of doc_ref.set: the document is read and
\* doc_dict is made of it and of the arguments that are not None.
update_expense_get(t, expense_id, name, amount, date, category) ==
    LET doc == expenses[expense_id]
        request == [expense_id |-> expense_id, name |-> name, amount |-> amount,
                    date |-> date, category |-> category]
    IN  /\ tasks[t].at = "idle"
        /\ IF doc = NoDoc
           THEN /\ resp' = [op |-> "update_expense", request |-> request, raised |-> "",
                            message |-> "Expense not found"]
                /\ UNCHANGED tasks
           ELSE IF date # Nothing /\ ~strptime(date[1]).ok
           THEN /\ resp' = [op |-> "update_expense", request |-> request,
                            raised |-> "ValueError", message |-> ""]
                /\ UNCHANGED tasks
           ELSE /\ tasks' = [tasks EXCEPT ![t] =
                      [at |-> "doc_ref.set", request |-> request,
                       doc_dict |-> [name |-> merged_field(doc.name, name),
                                     amount |-> merged_field(doc.amount, amount),
                                     date |-> merged_field(doc.date, converted_date(date)),
                                     category |-> merged_field(doc.category, category)]]]
                /\ resp' = [op |-> "doc_ref.get", request |-> request]
        /\ UNCHANGED <<deal_alerts, agent_connection, init_runs, environ, calls,
                       recommendations, expenses, budgets, budget_plans, spending_patterns,
                       itineraries, state, clock, upstream, gen, sent>>

\* update_expense from doc_ref.set(doc_dict, merge=True) to its return:
\* doc_dict names every field, so the merge writes every field.
update_expense_set(t) ==
    /\ tasks[t].at = "doc_ref.set"
    /\ expenses' = [expenses EXCEPT ![tasks[t].request.expense_id] = tasks[t].doc_dict]
    /\ tasks' = [tasks EXCEPT ![t] = IdleTask]
    /\ resp' = [op |-> "update_expense", request |-> tasks[t].request, raised |-> "",
                message |-> "Expense updated successfully"]
    /\ UNCHANGED <<deal_alerts, agent_connection, init_runs, environ, calls,
                   recommendations, budgets, budget_plans, spending_patterns,
                   itineraries, state, clock, upstream, gen, sent>>

-----------------------------------------------------------------------------
(* POST /api/expense/sessions.  What the expense tracker answers to a       *)
(* request is a record: the request raised (no response at all), or it      *)
(* carries a status code and a body that is JSON or not.                    *)

\* requests raised a ConnectionError.
NoResponse == [raised |-> TRUE, status_code |-> 0, json_ok |-> FALSE, json |-> <<>>]

Response(status_code, json_ok, json) ==
    [raised |-> FALSE, status_code |-> status_code, json_ok |-> json_ok, json |-> json]

\* Response.raise_for_status() raises HTTPError: a 4xx or 5xx status.
raises_for_status(response) == response.status_code >= 400 /\ response.status_code < 600

\* Response.ok
ok(response) == ~raises_for_status(response)

\* data.get('session_id', f"session_{int(datetime.now().timestamp())}")
requested_session_id(data) ==
    IF "session_id" \in DOMAIN data THEN data.session_id ELSE "session_<timestamp>"

\* available_agents[0] of the second /list-apps request, None when it fails.
app_name_again(list_again) ==
    IF list_again.raised \/ raises_for_status(list_again) \/ ~list_again.json_ok
       \/ list_again.json = <<>>
    THEN "None" ELSE list_again.json[1]

\* session_data of the 409 branch: the existing session if it can be
\* fetched and parsed, else {"status": "exists"}.
existing_session_data(get_session_response) ==
    IF get_session_response.raised \/ ~get_session_response.json_ok
       \/ ~ok(get_session_response)
    THEN [status |-> "exists"] ELSE get_session_response.json

\* if session_response.status_code == 409
conflict(session_response) == session_response.status_code = 409

\* The body of create_expense_session: the status code and the JSON it
\* returns, and the requests it sent with their responses, in order.
create_expense_session_result(data, list_response, session_response, get_session_response, list_again) ==
    LET session_id == requested_session_id(data)
        error == [error |-> "Failed to create expense tracker session"]
        listed == <<<<"GET /list-apps", list_response>>>>
        posted == listed \o <<<<"POST /sessions", session_response>>>>
    IN  IF list_response.raised
        THEN [code |-> 500, body |-> error, exchanges |-> listed]
        ELSE IF raises_for_status(list_response)
        THEN IF list_response.status_code = 409
             THEN [code |-> 200,
                   body |-> [id |-> session_id, app_name |-> app_name_again(list_again),
                             session_data |-> [status |-> "exists"]],
                   exchanges |-> listed \o <<<<"GET /list-apps", list_again>>>>]
             ELSE [code |-> 500, body |-> error, exchanges |-> listed]
        ELSE IF ~list_response.json_ok \/ list_response.json = <<>>
        THEN [code |-> 500, body |-> error, exchanges |-> listed]
        ELSE LET app_name == list_response.json[1]
             IN  IF session_response.raised
                 THEN [code |-> 500, body |-> error, exchanges |-> posted]
                 ELSE IF conflict(session_response)
                 THEN [code |-> 200,
                       body |-> [id |-> session_id, app_name |-> app_name,
                                 session_data |-> existing_session_data(get_session_response)],
                       exchanges |-> posted \o <<<<"GET /sessions", get_session_response>>>>]
                 ELSE IF raises_for_status(session_response) \/ ~session_response.json_ok
                 THEN [code |-> 500, body |-> error, exchanges |-> posted]
                 ELSE [code |-> 201,
                       body |-> [id |-> session_id, app_name |-> app_name,
                                 session_data |-> session_response.json],
                       exchanges |-> posted]

\* POST /api/expense/sessions
create_expense_session(data, list_response, session_response, get_session_response, list_again) ==
    LET result == create_expense_session_result(data, list_response, session_response,
                                                get_session_response, list_again)
    IN  /\ resp' = [op |-> "create_expense_session", data |-> data, code |-> result.code,
                    body |-> result.body, exchanges |-> result.exchanges]
        /\ calls' = [k \in 1..Len(result.exchanges) |-> result.exchanges[k][1]]
        /\ UNCHANGED <<deal_alerts, tasks, expenses, budgets, budget_plans, spending_patterns,
                       itineraries, state, clock, upstream, gen, sent,
                       agent_connection, init_runs, environ, recommendations>>

-----------------------------------------------------------------------------
(* The inputs the model draws.                                              *)

Jan01 == <<"2", "0", "2", "4", "-", "0", "1", "-", "0", "1">>
Jan05 == <<"2", "0", "2", "4", "-", "0", "1", "-", "0", "5">>
Feb01 == <<"2", "0", "2", "4", "-", "0", "2", "-", "0", "1">>
\* Not zero-padded; strptime accepts it.
Jan5Unpadded == <<"2", "0", "2", "4", "-", "1", "-", "5">>
\* Malformed: no thirteenth month, and the wrong separators.
BadMonth == <<"2", "0", "2", "4", "-", "1", "3", "-", "0", "1">>
Slashes == <<"0", "1", "/", "0", "5", "/", "2", "0", "2", "4">>

Amount300 == <<"3", "0", "0">>
Amount500 == <<"5", "0", "0">>
BadAmount == <<"-">>

\* name, amount, date, category
ExpenseInputs ==
    { <<"lunch", Amount500, Jan01, "Food">>,
      <<"dinner", Amount300, Jan05, "Food">>,
      <<"taxi", Amount300, Feb01, "Travel">>,
      <<"hotel", Amount500, Jan5Unpadded, "Travel">>,
      <<"lunch", Amount500, BadMonth, "Food">>,
      <<"lunch", BadAmount, Jan01, "Food">> }

Amount1000 == <<"1", "0", "0", "0">>
Month1 == <<"1">>
Month12 == <<"1", "2">>
Year2023 == <<"2", "0", "2", "3">>
Year2024 == <<"2", "0", "2", "4">>

\* The expenses drawn where budgets are compared.
BudgetedExpenseInputs ==
    { <<"lunch", Amount500, Jan01, "Food">>,
      <<"dinner", Amount300, Jan05, "Food">>,
      <<"taxi", Amount300, Feb01, "Travel">>,
      <<"lunch", Amount500, Slashes, "Food">> }

\* The expenses drawn where expenses are updated.
LedgerExpenseInputs ==
    { <<"lunch", Amount500, Jan01, "Food">>,
      <<"hotel", Amount300, Jan5Unpadded, "Travel">>,
      <<"lunch", Amount500, BadMonth, "Food">> }

\* name, amount, date, category of update_expense
UpdateExpenseInputs ==
    { <<Nothing, Nothing, Nothing, Nothing>>,
      <<Some("brunch"), Some(0), Nothing, Nothing>>,
      <<Nothing, Nothing, Some(Jan5Unpadded), Nothing>>,
      <<Some(""), Nothing, Some(Feb01), Some("Travel")>>,
      <<Some("late"), Some(300), Some(BadMonth), Some("Misc")>> }

\* amount, month, year
BudgetInputs ==
    { <<Amount1000, Month1, Year2024>>,
      <<Amount300, Month1, Year2024>>,
      <<Amount300, Month12, Year2023>>,
      <<Amount300, <<>>, Year2024>> }

\* amount, month, year of update_budget
UpdateBudgetInputs ==
    { <<Nothing, Nothing, Nothing>>,
      <<Some(0), Nothing, Nothing>>,
      <<Some(500), Nothing, Nothing>>,
      <<Nothing, Some(12), Some(2023)>>,
      <<Some(300), Some(0), Some(2024)>> }

\* The arguments drawn where both collections are written side by side.
LedgerBudgetInputs ==
    { <<Amount1000, Month1, Year2024>>,
      <<Amount300, <<>>, Year2024>> }

LedgerExpenseUpdates ==
    { <<Some("brunch"), Some(0), Nothing, Nothing>>,
      <<Some("late"), Some(300), Some(BadMonth), Some("Misc")>> }

LedgerBudgetUpdates ==
    { <<Nothing, Nothing, Nothing>>,
      <<Some(500), Some(12), Nothing>> }

\* destination, start_date, end_date, total_budget, categories, trip_id
PlanInputs ==
    { <<"Goa", Jan01, Jan05, 1000, ("Food" :> 1000) @@ ("Stay" :> 400), "trip1">>,
      <<"Goa", Jan01, Feb01, 500, ("Food" :> 500), "trip1">>,
      <<"Goa", Slashes, Jan05, 500, EmptyDict, "trip2">> }

\* trip_id, month, year
CompareInputs ==
    { <<"trip1", NoneInt, NoneInt>>, <<"trip2", NoneInt, NoneInt>>,
      <<"", 1, 2024>>, <<"", 12, 2023>>, <<"", 2, 2024>>,
      <<"", NoneInt, NoneInt>>, <<"", 1, NoneInt>> }

\* start_date, end_date of a dashboard request
DashboardInputs ==
    { <<None, None>>, <<Jan01, Jan01>>, <<Jan01, Jan05>>, <<Jan05, Feb01>>,
      <<Jan5Unpadded, Jan05>>, <<Feb01, Jan01>>, <<None, Jan01>>, <<Jan05, None>>,
      <<BadMonth, Jan05>>, <<Jan01, Slashes>>, <<<<>>, Jan05>> }

\* start_date, end_date, category, user_id
AnalyzeInputs ==
    { <<None, None, "", "default">>,
      <<Jan05, Feb01, "Food", "default">>,
      <<Feb01, Jan01, "", "default">>,
      <<BadMonth, None, "", "default">> }

\* The moments datetime.now() returns.
NowInputs ==
    { [year |-> 2024, month |-> 1, day |-> 5, hour |-> 10, minute |-> 30,
       second |-> 0, microsecond |-> 123456],
      [year |-> 2024, month |-> 2, day |-> 1, hour |-> 9, minute |-> 0,
       second |-> 0, microsecond |-> 0] }

\* The itineraries a session's state holds: JSON objects whose days are a
\* list or a map of day entries, or are absent.
ItineraryInputs ==
    { Map(("trip_name" :> Leaf("Goa")) @@ ("days" :> List(<<"beach", "fort">>))),
      Map(("trip_name" :> Leaf("Goa")) @@ ("days" :> List(<<"market">>))),
      Map(("trip_name" :> Leaf("Pune"))),
      Map(("trip_name" :> Leaf("Goa"))
            @@ ("days" :> Map(("day1" :> Leaf("beach")) @@ ("day2" :> Leaf("fort"))))),
      Map(("trip_name" :> Leaf("Goa"))
            @@ ("days" :> Map(("day1" :> Leaf("market"))))),
      Map(EmptyDict) }

Jan31 == <<"2", "0", "2", "4", "-", "0", "1", "-", "3", "1">>
Jul01 == <<"2", "0", "2", "4", "-", "0", "7", "-", "0", "1">>

Goa == <<"G", "o", "a">>
JaipurIndia == <<"J", "a", "i", "p", "u", "r", ",", " ", "I", "n", "d", "i", "a">>
Oslo == <<"O", "s", "l", "o">>

\* destination, start_date, end_date
ForecastInputs ==
    { <<Goa, Jan01, Jan01>>,
      <<Goa, Jul01, Jul01>>,
      <<JaipurIndia, Jul01, Jul01>>,
      <<Oslo, Jan31, Jan31>>,
      <<Goa, Jan05, Jan01>>,
      <<Goa, BadMonth, Jan01>> }

FlightEvent ==
    Map(("eventType" :> Leaf("flight")) @@ ("price" :> Leaf(100))
            @@ ("flightNumber" :> Leaf("AI101")))

HotelEvent ==
    Map(("eventType" :> Leaf("hotel")) @@ ("price" :> Leaf(200))
            @@ ("description" :> Leaf("Inn")))

VisitEvent == Map(("eventType" :> Leaf("visit")))

\* The itineraries the optimizer is given: days of events.
OptimizerItineraries ==
    { Map(("trip_name" :> Leaf("Goa"))
            @@ ("days" :> List(<<Map(("events" :> List(<<FlightEvent, VisitEvent>>))),
                                 Map(("events" :> List(<<HotelEvent>>)))>>))),
      Map(("trip_name" :> Leaf("Goa"))
            @@ ("days" :> List(<<Map(("events" :> List(<<VisitEvent>>)))>>))),
      Map(("trip_name" :> Leaf("Goa")) @@ ("days" :> List(<<>>))) }

\* The recommendations saved: with and without a priority and a trip_id.
RecommendationInputs ==
    { [title |-> "flights", trip_id |-> "goa", priority |-> 9],
      [title |-> "food", trip_id |-> "goa", priority |-> 6],
      [title |-> "misc", trip_id |-> "goa"],
      [title |-> "taxi", priority |-> 8] }

TripIds == {Nothing, Some(""), Some("goa"), Some("pune")}

Limits == 0..MaxLimit

Mar01 == <<"2", "0", "2", "4", "-", "0", "3", "-", "0", "1">>

\* The deals a search hands to save_deals_to_firestore: one that expires
\* between the two moments of NowInputs, one that expires after both.
DealInputs ==
    { <<[deal_type |-> "flight", title |-> "sale", deal_price |-> 90, source |-> "search",
         expires_at |-> Jan31]>>,
      <<[deal_type |-> "hotel", title |-> "stay", deal_price |-> 90, source |-> "search",
         expires_at |-> Mar01]>> }

\* trip_id, item_type, item_name, current_price
TrackInputs ==
    { <<trip_id, item_type, "AI101", current_price>> :
        trip_id \in {"goa", "pune"}, item_type \in {"flight", "hotel"},
        current_price \in {80, 100} }

\* destination, duration_days, user_id
PredictInputs ==
    { <<"Goa", duration_days, user_id>> :
        duration_days \in {1, 3}, user_id \in {"default", "alice"} }

\* user_id, category, preferred_price_range, preferred_savings_threshold
PreferenceInputs ==
    { <<"default", "Food", Nothing, 15>>,
      <<"alice", "Travel", Nothing, 20>> }

\* The itineraries of the sessions that save at the same time.
SessionItineraries ==
    { Map(("trip_name" :> Leaf("Goa")) @@ ("days" :> List(<<"market">>))),
      Map(EmptyDict) }

\* name, amount, date, category of the updates that overlap: two that set
\* disjoint fields, and one with a malformed date.
OverlappingUpdates ==
    { <<Some("brunch"), Nothing, Nothing, Nothing>>,
      <<Nothing, Some(750), Nothing, Some("Misc")>>,
      <<Nothing, Nothing, Some(BadMonth), Nothing>> }

\* What /list-apps answers.
ListResponses ==
    { NoResponse,
      Response(200, TRUE, <<"expense_agent">>),
      Response(200, TRUE, <<>>),
      Response(200, FALSE, <<>>),
      Response(409, FALSE, <<>>),
      Response(500, FALSE, <<>>) }

\* What the session POST and the GET of the existing session answer.
SessionResponses ==
    { NoResponse,
      Response(200, TRUE, [id |-> "s1", state |-> "stored"]),
      Response(200, FALSE, <<>>),
      Response(409, TRUE, [detail |-> "Session already exists"]),
      Response(404, TRUE, [detail |-> "Not Found"]) }

\* The JSON bodies of POST /api/expense/sessions.
SessionBodies == { [session_id |-> "s1"], EmptyDict }

\* Sequences of at most n elements of S.
SeqsUpTo(S, n) == UNION {[1..m -> S] : m \in 0..n}

\* The events an agent's stream_query yields.
AgentEvents == {[id |-> 1], [id |-> 2]}

\* The lines of the expense tracker's response: a data line, a second one,
\* an empty keep-alive line and a comment line.
UpstreamLines ==
    { DataPrefix \o <<"1">>, DataPrefix \o <<"2">>, <<>>, <<":", " ", "p">> }

ChatScripts ==
    {[items |-> i, raises |-> r] : i \in SeqsUpTo(AgentEvents, MaxEvents), r \in BOOLEAN}

SseScripts ==
    {[items |-> i, raises |-> r] : i \in SeqsUpTo(UpstreamLines, MaxEvents), r \in BOOLEAN}

\* Environments: nothing set, everything set, and the alternative names
\* of the project and the location only.
EnvInputs ==
    { NoEnvironment,
      [n \in EnvNames |-> IF n = "GOOGLE_CLOUD_PROJECT" THEN "my-project"
                          ELSE IF n = "GOOGLE_CLOUD_LOCATION" THEN "europe-west1"
                          ELSE IF n = "AGENT_RESOURCE_ID" THEN "engines/travel"
                          ELSE IF n = "PACKING_AGENT_RESOURCE_ID" THEN "engines/packing"
                          ELSE IF n = "BUDGET_AGENT_RESOURCE_ID" THEN "engines/budget"
                          ELSE ""],
      [n \in EnvNames |-> IF n = "GCP_PROJECT" THEN "my-project"
                          ELSE IF n = "GCP_LOCATION" THEN "europe-west1"
                          ELSE ""] }

\* Which remote calls of the initialisation succeed.
UpInputs ==
    { [c \in {"vertexai", "travel", "packing", "budget", "session_service"} |-> c \notin down] :
        down \in {{}, {"budget"}, {"travel"}, {"session_service"}, {"vertexai"}} }

AgentTypes == {"travel", "packing", "budget"}

\* JSON bodies of POST /api/sessions/<id>/stream; "" is a missing or empty
\* content.
ChatBodies ==
    {[content |-> c, agent_type |-> t] : c \in {"", "plan my trip"}, t \in AgentTypes}

\* JSON bodies of the expense endpoints; "" is a missing or empty field.
ExpenseBodies ==
    {[app_name |-> a, session_id |-> i, message |-> m] :
        a \in {"", "expense_agent"}, i \in {"", "s1"}, m \in {"", "lunch 500"}}

\* The bodies the stream checks draw: with and without the message.
StreamChatBodies == {b \in ChatBodies : b.agent_type = "travel"}

StreamExpenseBodies == {b \in ExpenseBodies : b.app_name # "" /\ b.session_id # ""}

RecommendationIds == 1..MaxRecommendations

\* One stream that ends and one that raises, for each streaming endpoint.
ShortChatScripts ==
    { [items |-> <<>>, raises |-> FALSE], [items |-> <<[id |-> 1]>>, raises |-> TRUE] }

ShortSseScripts ==
    { [items |-> <<DataPrefix \o <<"1">>>>, raises |-> FALSE],
      [items |-> <<>>, raises |-> TRUE] }

BudgetIds == 1..MaxBudgets

PlanIds == 1..MaxPlans

UserIds == {"default_user", "alice"}

-----------------------------------------------------------------------------
(* The expense store and its reports.                                       *)

Init ==
    /\ expenses = [id \in ExpenseIds |-> NoDoc]
    /\ budgets = [id \in BudgetIds |-> NoDoc]
    /\ budget_plans = [id \in PlanIds |-> NoDoc]
    /\ spending_patterns = [id \in PatternIds |-> NoDoc]
    /\ resp = NoResp
    /\ itineraries = [u \in UserIds |-> NoDoc]
    /\ state = InitialState
    /\ clock = 0
    /\ upstream = NoUpstream
    /\ gen = IdleGenerator
    /\ sent = <<>>
    /\ agent_connection = NoInstance
    /\ init_runs = 0
    /\ environ = NoEnvironment
    /\ calls = <<>>
    /\ recommendations = [id \in RecommendationIds |-> NoDoc]
    /\ deal_alerts = [id \in DealIds |-> NoDoc]
    /\ tasks = NoTasks

Next ==
    \/ \E e \in ExpenseInputs : add_expense(e[1], e[2], e[3], e[4])
    \/ \E id \in ExpenseIds : delete_expense(id)
    \/ \E d \in DashboardInputs : get_dashboard(d[1], d[2])
    \/ \E d \in DashboardInputs : get_dashboard_range(d[1], d[2])

Spec == Init /\ [][Next]_vars

-----------------------------------------------------------------------------
(* The reports over a store of expenses: the store is any the expense       *)
(* tracker can have written.                                                *)

StoredExpenses ==
    {StoredExpense(e) : e \in {x \in ExpenseInputs : float_ok(x[2]) /\ strptime(x[3]).ok}}

InitReports ==
    /\ expenses \in [ExpenseIds -> StoredExpenses \cup {NoDoc}]
    /\ budgets = [id \in BudgetIds |-> NoDoc]
    /\ budget_plans = [id \in PlanIds |-> NoDoc]
    /\ spending_patterns = [id \in PatternIds |-> NoDoc]
    /\ resp = NoResp
    /\ itineraries = [u \in UserIds |-> NoDoc]
    /\ state = InitialState
    /\ clock = 0
    /\ upstream = NoUpstream
    /\ gen = IdleGenerator
    /\ sent = <<>>
    /\ agent_connection = NoInstance
    /\ init_runs = 0
    /\ environ = NoEnvironment
    /\ calls = <<>>
    /\ recommendations = [id \in RecommendationIds |-> NoDoc]
    /\ deal_alerts = [id \in DealIds |-> NoDoc]
    /\ tasks = NoTasks

NextReports ==
    \/ \E d \in DashboardInputs : get_dashboard(d[1], d[2])
    \/ \E d \in DashboardInputs : get_dashboard_range(d[1], d[2])
    \/ \E a \in AnalyzeInputs, now \in NowInputs :
          analyze_spending_patterns(a[1], a[2], a[3], a[4], now)
    \/ \E now \in NowInputs : get_expense_summary(now)

SpecReports == InitReports /\ [][NextReports]_vars

-----------------------------------------------------------------------------
(* Budgets against actual spending.                                         *)

NextBudget ==
    \/ \E e \in BudgetedExpenseInputs : add_expense(e[1], e[2], e[3], e[4])
    \/ \E b \in BudgetInputs : add_budget(b[1], b[2], b[3])
    \/ \E p \in PlanInputs, now \in NowInputs :
          create_budget_plan(p[1], p[2], p[3], p[4], p[5], p[6], now)
    \/ \E q \in CompareInputs : compare_budget_vs_actual(q[1], q[2], q[3])

SpecBudget == Init /\ [][NextBudget]_vars

-----------------------------------------------------------------------------
(* The travel concierge session and its saved itineraries.                  *)

InitItinerary ==
    /\ expenses = [id \in ExpenseIds |-> NoDoc]
    /\ budgets = [id \in BudgetIds |-> NoDoc]
    /\ budget_plans = [id \in PlanIds |-> NoDoc]
    /\ spending_patterns = [id \in PatternIds |-> NoDoc]
    /\ resp = NoResp
    /\ itineraries = [u \in UserIds |-> NoDoc]
    /\ state \in {[InitialState EXCEPT !.user_id = u] : u \in {"", "alice"}}
    /\ clock = 0
    /\ upstream = NoUpstream
    /\ gen = IdleGenerator
    /\ sent = <<>>
    /\ agent_connection = NoInstance
    /\ init_runs = 0
    /\ environ = NoEnvironment
    /\ calls = <<>>
    /\ recommendations = [id \in RecommendationIds |-> NoDoc]
    /\ deal_alerts = [id \in DealIds |-> NoDoc]
    /\ tasks = NoTasks

NextItinerary ==
    \/ \E itinerary \in ItineraryInputs : itinerary_agent(itinerary)
    \/ \E failed \in BOOLEAN : save_itinerary_to_firestore(failed)
    \/ \E u \in UserIds : load_itinerary_from_firestore(u)
    \/ \E u \in UserIds : delete_itinerary_from_firestore(u)

SpecItinerary == InitItinerary /\ [][NextItinerary]_vars

-----------------------------------------------------------------------------
(* The mock calculators of the packing and the planning agent.              *)

NextMocks ==
    \/ \E f \in ForecastInputs : get_weather_forecast(f[1], f[2], f[3])
    \/ \E itinerary \in OptimizerItineraries : itinerary_agent(itinerary)
    \/ intelligent_budget_optimizer

SpecMocks == Init /\ [][NextMocks]_vars

-----------------------------------------------------------------------------
(* The recommendations collection and its query.                            *)

NextRecommendations ==
    \/ \E r \in RecommendationInputs, now \in NowInputs : save_recommendation(r, now)
    \/ \E trip_id \in TripIds, limit \in Limits : get_recommendations(trip_id, limit)

SpecRecommendations == Init /\ [][NextRecommendations]_vars

-----------------------------------------------------------------------------
(* The expense tracker's expenses, as its tools write them.                 *)

NextExpenses ==
    \/ \E e \in LedgerExpenseInputs : add_expense(e[1], e[2], e[3], e[4])
    \/ \E id \in ExpenseIds, u \in UpdateExpenseInputs :
          update_expense(id, u[1], u[2], u[3], u[4])
    \/ \E id \in ExpenseIds : delete_expense(id)

SpecExpenses == Init /\ [][NextExpenses]_vars

-----------------------------------------------------------------------------
(* The expense tracker's budgets, as its tools write them.                  *)

NextBudgets ==
    \/ \E b \in BudgetInputs : add_budget(b[1], b[2], b[3])
    \/ \E id \in BudgetIds, u \in UpdateBudgetInputs : update_budget(id, u[1], u[2], u[3])
    \/ \E id \in BudgetIds : delete_budget(id)

SpecBudgets == Init /\ [][NextBudgets]_vars

-----------------------------------------------------------------------------
(* The expense tracker's two collections side by side.                      *)

NextLedger ==
    \/ \E e \in LedgerExpenseInputs : add_expense(e[1], e[2], e[3], e[4])
    \/ \E id \in ExpenseIds, u \in LedgerExpenseUpdates :
          update_expense(id, u[1], u[2], u[3], u[4])
    \/ \E id \in ExpenseIds : delete_expense(id)
    \/ \E b \in LedgerBudgetInputs : add_budget(b[1], b[2], b[3])
    \/ \E id \in BudgetIds, u \in LedgerBudgetUpdates : update_budget(id, u[1], u[2], u[3])
    \/ \E id \in BudgetIds : delete_budget(id)

SpecLedger == Init /\ [][NextLedger]_vars

-----------------------------------------------------------------------------
(* The deal finder's price tracking.                                        *)

NextDeals ==
    \/ \E d \in DealInputs, trip_id \in {Nothing, Some("goa")}, now \in NowInputs :
          save_deals_to_firestore(d, trip_id, now)
    \/ \E t \in TrackInputs, now \in NowInputs :
          track_price_changes(t[1], t[2], t[3], t[4], now)

SpecDeals == Init /\ [][NextDeals]_vars

-----------------------------------------------------------------------------
(* Budget prediction over the saved spending patterns.                      *)

NextPredict ==
    \/ \E a \in AnalyzeInputs, now \in NowInputs :
          analyze_spending_patterns(a[1], a[2], a[3], a[4], now)
    \/ \E l \in PreferenceInputs, now \in NowInputs :
          learn_preferences(l[1], l[2], l[3], l[4], now)
    \/ \E q \in PredictInputs : predict_budget_needs(q[1], q[2], q[3])

SpecPredict == InitReports /\ [][NextPredict]_vars

-----------------------------------------------------------------------------
(* Sessions saving itineraries at the same time.                            *)

InitSaves ==
    /\ expenses = [id \in ExpenseIds |-> NoDoc]
    /\ budgets = [id \in BudgetIds |-> NoDoc]
    /\ budget_plans = [id \in PlanIds |-> NoDoc]
    /\ spending_patterns = [id \in PatternIds |-> NoDoc]
    /\ resp = NoResp
    /\ itineraries = [u \in UserIds |-> NoDoc]
    /\ state = InitialState
    /\ clock = 0
    /\ upstream = NoUpstream
    /\ gen = IdleGenerator
    /\ sent = <<>>
    /\ agent_connection = NoInstance
    /\ init_runs = 0
    /\ environ = NoEnvironment
    /\ calls = <<>>
    /\ recommendations = [id \in RecommendationIds |-> NoDoc]
    /\ deal_alerts = [id \in DealIds |-> NoDoc]
    /\ tasks \in [TaskIds -> {SessionTask([InitialState EXCEPT !.user_id = u]) :
                                 u \in {"", "alice"}}]

NextSaves ==
    \/ \E t \in TaskIds, itinerary \in SessionItineraries : session_itinerary_agent(t, itinerary)
    \/ \E t \in TaskIds : save_itinerary_get(t)
    \/ \E t \in TaskIds, failed \in BOOLEAN : save_itinerary_set(t, failed)

SpecSaves == InitSaves /\ [][NextSaves]_vars

-----------------------------------------------------------------------------
(* Updates of expenses running at the same time.                            *)

NextUpdates ==
    \/ \E e \in LedgerExpenseInputs : add_expense(e[1], e[2], e[3], e[4])
    \/ \E t \in TaskIds, id \in ExpenseIds, u \in OverlappingUpdates :
          update_expense_get(t, id, u[1], u[2], u[3], u[4])
    \/ \E t \in TaskIds : update_expense_set(t)

SpecUpdates == Init /\ [][NextUpdates]_vars

-----------------------------------------------------------------------------
(* The expense tracker proxy of the web application.                        *)

NextProxy ==
    \/ \E data \in SessionBodies, list_response \in ListResponses,
          session_response \in SessionResponses,
          get_session_response \in SessionResponses, list_again \in ListResponses :
          create_expense_session(data, list_response, session_response,
                                 get_session_response, list_again)
    \/ \E data \in ExpenseBodies, posted \in BOOLEAN : expense_run(data, posted)
    \/ \E data \in StreamExpenseBodies, script \in ShortSseScripts :
          expense_run_sse(data, script)
    \/ expense_run_sse_event_stream

SpecProxy == Init /\ [][NextProxy]_vars

-----------------------------------------------------------------------------
(* The streaming endpoints and their clients.                               *)

\* The application once its module has been imported: the agent connection
\* has been constructed, from an environment that sets nothing.
InitStream ==
    /\ expenses = [id \in ExpenseIds |-> NoDoc]
    /\ budgets = [id \in BudgetIds |-> NoDoc]
    /\ budget_plans = [id \in PlanIds |-> NoDoc]
    /\ spending_patterns = [id \in PatternIds |-> NoDoc]
    /\ resp = NoResp
    /\ itineraries = [u \in UserIds |-> NoDoc]
    /\ state = InitialState
    /\ clock = 0
    /\ upstream = NoUpstream
    /\ gen = IdleGenerator
    /\ sent = <<>>
    /\ environ = NoEnvironment
    /\ agent_connection \in {initialise(NoEnvironment, up) : up \in UpInputs}
    /\ init_runs = 1
    /\ calls = <<>>
    /\ recommendations = [id \in RecommendationIds |-> NoDoc]
    /\ deal_alerts = [id \in DealIds |-> NoDoc]
    /\ tasks = NoTasks

NextStream ==
    \/ \E data \in StreamChatBodies, script \in ChatScripts : stream_chat(data, script)
    \/ stream_chat_event_stream
    \/ \E data \in StreamExpenseBodies, script \in SseScripts : expense_run_sse(data, script)
    \/ expense_run_sse_event_stream

SpecStream == InitStream /\ [][NextStream]_vars

-----------------------------------------------------------------------------
(* The application from the start of its process.                           *)

InitApp ==
    /\ expenses = [id \in ExpenseIds |-> NoDoc]
    /\ budgets = [id \in BudgetIds |-> NoDoc]
    /\ budget_plans = [id \in PlanIds |-> NoDoc]
    /\ spending_patterns = [id \in PatternIds |-> NoDoc]
    /\ resp = NoResp
    /\ itineraries = [u \in UserIds |-> NoDoc]
    /\ state = InitialState
    /\ clock = 0
    /\ upstream = NoUpstream
    /\ gen = IdleGenerator
    /\ sent = <<>>
    /\ agent_connection = NoInstance
    /\ init_runs = 0
    /\ environ \in EnvInputs
    /\ calls = <<>>
    /\ recommendations = [id \in RecommendationIds |-> NoDoc]
    /\ deal_alerts = [id \in DealIds |-> NoDoc]
    /\ tasks = NoTasks

NextApp ==
    \/ \E up \in UpInputs : AgentSingleton(up)
    \/ \E t \in AgentTypes, created \in BOOLEAN : create_session(t, created)
    \/ \E data \in ChatBodies, script \in ShortChatScripts : stream_chat(data, script)
    \/ stream_chat_event_stream
    \/ \E data \in ExpenseBodies, posted \in BOOLEAN : expense_run(data, posted)
    \/ \E data \in ExpenseBodies, script \in ShortSseScripts : expense_run_sse(data, script)
    \/ expense_run_sse_event_stream

SpecApp == InitApp /\ [][NextApp]_vars

-----------------------------------------------------------------------------
(* Properties of the dashboard and the reports.                             *)

\* A zero-padded YYYY-MM-DD string naming a day of the calendar.
WellFormed(s) ==
    /\ Truthy(s)
    /\ strptime(s).ok
    /\ s = date_isoformat(strptime(s))

DayStart == <<"T", "0", "0", ":", "0", "0", ":", "0", "0">>

DayEnd == <<"T", "2", "3", ":", "5", "9", ":", "5", "9">>

InClaimedRange(d, start_date, end_date) ==
    /\ StrLeq(start_date \o DayStart, d)
    /\ StrLeq(d, end_date \o DayEnd)

AmountOf == [id \in Existing(expenses) |-> expenses[id].amount]

IsDashboard == resp.op \in {"get_dashboard", "get_dashboard_range"}

\* C1: for well-formed dates with start_date <= end_date, the dashboard
\* answers with total_amount equal to the sum of the amounts of exactly the
\* documents whose date string lies between start_date + "T00:00:00" and
\* end_date + "T23:59:59" in string order, and expense_count equal to their
\* number.
C1_DashboardTotals ==
    ( /\ IsDashboard
      /\ WellFormed(resp.start_date)
      /\ WellFormed(resp.end_date)
      /\ StrLeq(resp.start_date, resp.end_date) )
    => /\ resp.code = 200
       /\ LET S == {id \in Existing(expenses) :
                      InClaimedRange(expenses[id].date, resp.start_date, resp.end_date)}
          IN  /\ resp.data.total_amount = SumOf(AmountOf, S)
              /\ resp.data.expense_count = Cardinality(S)

\* A dashboard answer for a valid range of several days that counts one
\* stored document and leaves the other out.
C1_Reached ==
    /\ IsDashboard
    /\ WellFormed(resp.start_date)
    /\ WellFormed(resp.end_date)
    /\ StrLess(resp.start_date, resp.end_date)
    /\ resp.code = 200
    /\ resp.data.expense_count = 1
    /\ resp.data.total_amount = 300
    /\ Cardinality(Existing(expenses)) = 2

\* A date parameter that is given and is no date strptime accepts.
Malformed(s) == Truthy(s) /\ ~strptime(s).ok

\* C8: on both dashboard endpoints a start_date or end_date that is not a
\* valid date is answered with HTTP 400.
C8_MalformedDateIs400 ==
    (IsDashboard /\ (Malformed(resp.start_date) \/ Malformed(resp.end_date)))
    => resp.code = 400

RECURSIVE DictSum(_, _)
\* The sum of the values of a dict over the keys K.
DictSum(d, K) ==
    IF K = {} THEN 0
    ELSE LET k == CHOOSE x \in K : TRUE IN d[k] + DictSum(d, K \ {k})

ZeroDashboard ==
    [raised |-> "", total_amount |-> 0, expense_count |-> 0,
     average_expense |-> Quotient(0, 1), categories |-> EmptyDict,
     date_range |-> EmptyDict, expenses |-> <<>>]

\* C9: a dashboard request whose filter matches no document is answered
\* with HTTP 200 and zeroed aggregates, and an analysis whose filter matches
\* no document returns zero totals and leaves the spending patterns as they
\* were; neither raises.
C9_EmptyResultIsZeroed ==
    [][ /\ ( /\ resp'.op \in {"get_dashboard", "get_dashboard_range"}
             /\ resp'.code # 400
             /\ ~Malformed(resp'.start_date)
             /\ ~Malformed(resp'.end_date)
             /\ get_dashboard_data(expenses, resp'.start_date,
                                   resp'.end_date).expense_count = 0 )
           => /\ resp'.code = 200
              /\ resp'.data = ZeroDashboard
        /\ ( /\ resp'.op = "analyze_spending_patterns"
             /\ ~Malformed(resp'.args.start_date)
             /\ ~Malformed(resp'.args.end_date)
             /\ get_expenses(expenses, resp'.args.start_date, resp'.args.end_date,
                             resp'.args.category).expenses = <<>> )
           => /\ resp'.raised = ""
              /\ resp'.out.total_spending = 0
              /\ resp'.out.expense_count = 0
              /\ resp'.out.average_expense = Quotient(0, 1)
              /\ resp'.out.category_breakdown = EmptyDict
              /\ spending_patterns' = spending_patterns
      ]_vars

\* The store holds expenses and the answer is a zeroed one: the filter left
\* every document out.
C9_Reached ==
    /\ Existing(expenses) # {}
    /\ \/ IsDashboard /\ resp.code = 200 /\ resp.data.expense_count = 0
       \/ /\ resp.op = "analyze_spending_patterns"
          /\ resp.raised = ""
          /\ resp.out.expense_count = 0

-----------------------------------------------------------------------------
(* Properties of compare_budget_vs_actual.                                  *)

IsComparison == resp.op = "compare_budget_vs_actual" /\ resp.out.raised = ""

Statuses == {"on_track", "over_budget", "under_budget"}

\* The comparison of one category in a comparison output, if it has one.
ComparisonOf(out, cat) == {c \in out.category_comparisons : c.category = cat}

\* C3: with the budgeted amount unchanged, a total or a category that is
\* over_budget before a step that changes the expenses is over_budget after
\* it whenever its actual spending has not gone down.
C3_OverBudgetIsMonotonic ==
    [][ expenses' # expenses =>
        \A q \in CompareInputs :
          LET before == budget_comparison(expenses, budgets, budget_plans,
                                          q[1], q[2], q[3])
              after == budget_comparison(expenses', budgets', budget_plans',
                                         q[1], q[2], q[3])
          IN  (before.raised = "" /\ after.raised = "")
              => /\ ( /\ before.status = "over_budget"
                      /\ after.total_budgeted = before.total_budgeted
                      /\ after.total_actual >= before.total_actual )
                    => after.status = "over_budget"
                 /\ \A b \in before.category_comparisons :
                    \A a \in ComparisonOf(after, b.category) :
                       ( /\ b.status = "over_budget"
                         /\ a.budgeted_amount = b.budgeted_amount
                         /\ a.actual_amount >= b.actual_amount )
                       => a.status = "over_budget"
      ]_vars

\* A comparison that is over budget in total and in a category after two
\* expenses, each of which alone puts it over budget.
C3_Reached ==
    /\ IsComparison
    /\ resp.out.status = "over_budget"
    /\ resp.out.total_budgeted = 300
    /\ resp.out.total_actual = 800
    /\ \E c \in resp.out.category_comparisons :
          c.status = "over_budget" /\ c.actual_amount = 800

IsExample ==
    /\ Cardinality(Existing(expenses)) = 2
    /\ {<<expenses[id].amount, expenses[id].date, expenses[id].category>> :
            id \in Existing(expenses)}
         = { <<500, Jan01 \o DayStart, "Food">>, <<300, Jan05 \o DayStart, "Food">> }
    /\ \E id \in Existing(budgets) :
          budgets[id] = [amount |-> 1000, month |-> 1, year |-> 2024]
    /\ Cardinality(Existing(budgets)) = 1

\* C4: a monthly comparison is under_budget exactly when the total is
\* strictly below 80% of the budget, over_budget exactly when it is strictly
\* above the budget, and on_track otherwise, so at exactly 80% and at
\* exactly 100%; expenses of 500 on 2024-01-01 and 300 on 2024-01-05 against
\* a budget of 1000 for January 2024 give total_actual 800 and on_track.
C4_Thresholds ==
    (IsComparison /\ resp.trip_id = "" /\ resp.out.status # "no_budget")
    => LET a == resp.out.total_actual
           b == resp.out.total_budgeted
       IN  /\ resp.out.status = "under_budget" <=> 5 * a < 4 * b
           /\ resp.out.status = "over_budget" <=> a > b
           /\ resp.out.status = "on_track" <=> (5 * a >= 4 * b /\ a <= b)
           /\ (IsExample /\ resp.month = 1 /\ resp.year = 2024)
              => (a = 800 /\ resp.out.status = "on_track")

\* The example of the claim: total_actual is exactly 80% of the budget.
C4_Reached ==
    /\ IsComparison
    /\ IsExample
    /\ resp.month = 1
    /\ resp.year = 2024
    /\ resp.out.total_actual = 800
    /\ resp.out.total_budgeted = 1000
    /\ resp.out.status = "on_track"

\* The expenses dated within the calendar month.
InMonth(month, year) ==
    {id \in Existing(expenses) :
        LET d == fromisoformat_date(expenses[id].date)
        IN  d.ok /\ d.year = year /\ d.month = month}

\* C6: the total_actual of a monthly comparison is the sum of the amounts
\* of exactly the expenses dated within that calendar month.
C6_MonthTotal ==
    ( /\ IsComparison
      /\ resp.trip_id = ""
      /\ resp.out.status # "no_budget" )
    => resp.out.total_actual = SumOf(AmountOf, InMonth(resp.month, resp.year))

\* C7: every status compare_budget_vs_actual produces, overall and per
\* category, is one of on_track, over_budget and under_budget.
C7_StatusValues ==
    IsComparison
    => /\ resp.out.status \in Statuses
       /\ \A c \in resp.out.category_comparisons : c.status \in Statuses

-----------------------------------------------------------------------------
(* Properties of the itinerary persistence.                                 *)

\* C5: a load that follows a successful save for the same user returns the
\* itinerary that save stored, whatever was saved for that user before.
C5_SaveLoadRoundTrip ==
    [][ ( /\ resp.op = "save_itinerary_to_firestore"
          /\ resp.status = "success"
          /\ resp'.op = "load_itinerary_from_firestore"
          /\ resp'.user_id = resp.user_id )
        => /\ resp'.status = "success"
           /\ resp'.itinerary = state.itinerary
      ]_vars

-----------------------------------------------------------------------------
(* Properties of the streaming endpoints.                                   *)

IsPrefix(s, t) == Len(s) <= Len(t) /\ s = SubSeq(t, 1, Len(s))

ErrorFrame ==
    DataPrefix \o <<"{", "\"", "e", "r", "r", "o", "r", "\"", ":", " ", "\"",
                    "An error occurred while streaming: ", "boom", "\"", "}">>
        \o FrameEnd

\* What the client of a stream whose upstream raises is to receive.
ExpectedFrames ==
    LET items == upstream.items
        kept == SelectSeq(items, LAMBDA l : l # <<>> /\ startswith(l, DataPrefix))
        forwarded ==
            IF gen.endpoint = "stream_chat"
            THEN [i \in 1..Len(items) |-> DataPrefix \o json_dumps(items[i]) \o FrameEnd]
            ELSE [i \in 1..Len(kept) |-> kept[i] \o FrameEnd]
    IN  forwarded \o <<ErrorFrame>>

\* C10: when the upstream of a streaming endpoint raises, the client receives
\* the forwarded events in upstream order, then exactly one error event, and
\* the generator ends normally with nothing after it.
C10_OneErrorEventEndsStream ==
    (gen.at # "idle" /\ upstream.raises) =>
        /\ IsPrefix(sent, ExpectedFrames)
        /\ gen.at \in {"excepted", "done"} => sent = ExpectedFrames
        /\ \A i \in 1..Len(sent) : sent[i] = ErrorFrame => i = Len(ExpectedFrames)
        /\ gen.at \in {"started", "yielded", "excepted", "done"}

C10_Reached ==
    /\ gen.endpoint = "expense_run_sse"
    /\ gen.at = "done"
    /\ upstream.raises
    /\ Len(upstream.items) = 3
    /\ Len(sent) = 3
    /\ sent[3] = ErrorFrame

C10_ReachedChat ==
    /\ gen.endpoint = "stream_chat"
    /\ gen.at = "done"
    /\ upstream.raises
    /\ upstream.items = <<>>
    /\ sent = <<ErrorFrame>>

-----------------------------------------------------------------------------
(* Properties of the agent connection and of request validation.            *)

RequiredVariables ==
    {"GOOGLE_CLOUD_PROJECT", "GOOGLE_CLOUD_LOCATION", "AGENT_RESOURCE_ID",
     "PACKING_AGENT_RESOURCE_ID"}

RequiredAbsent == \A n \in RequiredVariables : environ[n] = ""

\* C11: when the required environment variables are absent, the constructed
\* agent connection holds None for every handle and for the session service,
\* and every POST /api/sessions answers 500 without calling the session
\* service.
C11_AbsentVariablesAreFatal ==
    (agent_connection # NoInstance /\ RequiredAbsent)
    => /\ agent_connection.travel_agent = NoHandle
       /\ agent_connection.packing_agent = NoHandle
       /\ agent_connection.budget_agent = NoHandle
       /\ agent_connection.remote_agent = NoHandle
       /\ agent_connection.session_service = NoHandle
       /\ resp.op = "create_session" => (resp.code = 500 /\ calls = <<>>)

\* C12: a stream request without content and an expense request without
\* app_name, session_id or message are answered 400, and no request has been
\* sent upstream for them.
C12_MissingFieldIs400 ==
    /\ (resp.op = "stream_chat" /\ resp.data.content = "")
       => (resp.code = 400 /\ calls = <<>>)
    /\ ( /\ resp.op \in {"expense_run", "expense_run_sse"}
         /\ \E f \in {"app_name", "session_id", "message"} : resp.data[f] = "" )
       => (resp.code = 400 /\ calls = <<>>)

\* An expense stream request without session_id, rejected after an earlier
\* stream of the same process ran to its end.
C12_Reached ==
    /\ resp.op = "expense_run_sse"
    /\ resp.data.session_id = ""
    /\ resp.data.app_name # ""
    /\ resp.data.message # ""
    /\ resp.code = 400
    /\ calls = <<>>
    /\ gen.at = "done"

\* C13: once the agent connection exists no step changes it or runs the
\* initialisation body again, also when its handles are None; the body runs
\* at most once, and a later construction returns the stored instance.
C13_InitialisedOnce ==
    [][ /\ init_runs' <= 1
        /\ agent_connection # NoInstance
           => /\ agent_connection' = agent_connection
              /\ init_runs' = init_runs
              /\ resp'.op = "AgentSingleton"
                 => /\ resp'.instance = agent_connection
                    /\ ~resp'.initialised
                    /\ calls' = <<>>
      ]_vars

\* A construction that found the failed instance and returned it unchanged.
C13_Reached ==
    /\ resp.op = "AgentSingleton"
    /\ ~resp.initialised
    /\ resp.instance = FailedInstance
    /\ agent_connection = FailedInstance
    /\ init_runs = 1

-----------------------------------------------------------------------------
(* Properties of the stored expenses.                                       *)

\* The calendar day a stored date names, as a number that orders days.
DayNumber(d) == DateNum(fromisoformat_date(d))

\* C14: every stored expense date is YYYY-MM-DDT00:00:00 with zero-padded
\* fields naming a real day, so stored dates compare as strings the way
\* their days compare in time.
C14_StoredDatesAreFixedWidth ==
    /\ \A id \in Existing(expenses) :
          LET d == expenses[id].date
          IN  /\ Len(d) = 19
              /\ SubSeq(d, 11, 19) = DayStart
              /\ WellFormed(SubSeq(d, 1, 10))
    /\ \A i, j \in Existing(expenses) :
          StrLess(expenses[i].date, expenses[j].date)
             <=> DayNumber(expenses[i].date) < DayNumber(expenses[j].date)

\* An update with a date that is not zero-padded has been stored next to an
\* expense of an earlier day.
C14_Reached ==
    /\ resp.op = "update_expense"
    /\ resp.message = "Expense updated successfully"
    /\ resp.request.date = Some(Jan5Unpadded)
    /\ expenses[resp.request.expense_id].date = Jan05 \o DayStart
    /\ \E id \in Existing(expenses) : expenses[id].date = Jan01 \o DayStart

\* C16: a successful update_expense stores exactly the arguments that are
\* not None (the date as the stored form of the day given), keeps every
\* other field of the document, and changes no other expense and no budget.
C16_UpdateIsPartialMerge ==
    [][ (resp'.op = "update_expense" /\ resp'.message = "Expense updated successfully")
        => LET q == resp'.request
               old == expenses[q.expense_id]
               new == expenses'[q.expense_id]
           IN  /\ old # NoDoc
               /\ new # NoDoc
               /\ new.name = IF q.name = Nothing THEN old.name ELSE q.name[1]
               /\ new.amount = IF q.amount = Nothing THEN old.amount ELSE q.amount[1]
               /\ new.date = IF q.date = Nothing THEN old.date
                             ELSE date_isoformat(strptime(q.date[1])) \o DayStart
               /\ new.category = IF q.category = Nothing THEN old.category
                                 ELSE q.category[1]
               /\ DOMAIN new = {"name", "amount", "date", "category"}
               /\ \A id \in ExpenseIds \ {q.expense_id} : expenses'[id] = expenses[id]
               /\ budgets' = budgets
      ]_vars

\* An update of the name and the amount (to 0) only, with a second expense
\* in the collection.
C16_Reached ==
    /\ resp.op = "update_expense"
    /\ resp.message = "Expense updated successfully"
    /\ resp.request.name = Some("brunch")
    /\ resp.request.amount = Some(0)
    /\ resp.request.date = Nothing
    /\ expenses[resp.request.expense_id] =
          [name |-> "brunch", amount |-> 0, date |-> Jan05 \o DayStart,
           category |-> "Travel"]
    /\ Cardinality(Existing(expenses)) = 2

-----------------------------------------------------------------------------
(* Properties of the stored budgets.                                        *)

SameMonth(a, b) == budgets[a].month = budgets[b].month /\ budgets[a].year = budgets[b].year

\* C15: no tool refuses a budget because of its month and year: add_budget
\* fails on a ValueError only and otherwise adds a document under a fresh
\* id, and update_budget stores the month and year it is given, whatever the
\* other budgets hold.
C15_NoUniquenessCheck ==
    [][ /\ resp'.op = "add_budget"
           => \/ resp'.raised = "ValueError" /\ budgets' = budgets
              \/ /\ resp'.raised = ""
                 /\ budgets[resp'.id] = NoDoc
                 /\ budgets'[resp'.id] # NoDoc
                 /\ \A id \in BudgetIds \ {resp'.id} : budgets'[id] = budgets[id]
        /\ ( /\ resp'.op = "update_budget"
             /\ resp'.message = "Budget updated successfully"
             /\ resp'.request.month = Some(12)
             /\ resp'.request.year = Some(2023) )
           => /\ budgets'[resp'.request.budget_id].month = 12
              /\ budgets'[resp'.request.budget_id].year = 2023
      ]_vars

\* Two budgets of December 2023 with different amounts: update_budget moved
\* the 1000 budget into the month of the 300 one.
C15_Reached ==
    /\ resp.op = "update_budget"
    /\ resp.message = "Budget updated successfully"
    /\ \E a, b \in Existing(budgets) :
          /\ a # b
          /\ SameMonth(a, b)
          /\ budgets[a].month = 12
          /\ budgets[a].amount = 1000
          /\ budgets[b].amount = 300

\* C17: a successful update_budget stores each of amount, month and year
\* that is given, an amount of 0 too, and keeps each that is not given.
C17_UpdateStoresWhatIsGiven ==
    [][ (resp'.op = "update_budget" /\ resp'.message = "Budget updated successfully")
        => LET q == resp'.request
               old == budgets[q.budget_id]
               new == budgets'[q.budget_id]
           IN  /\ new.amount = IF q.amount = Nothing THEN old.amount ELSE q.amount[1]
               /\ new.month = IF q.month = Nothing THEN old.month ELSE q.month[1]
               /\ new.year = IF q.year = Nothing THEN old.year ELSE q.year[1]
      ]_vars

-----------------------------------------------------------------------------
(* Properties of the current month's summary.                               *)

\* The expenses dated from the first day of today's month up to today.
ThisMonthSoFar(today) ==
    {id \in InMonth(today.month, today.year) :
        fromisoformat_date(expenses[id].date).day <= today.day}

\* C18: get_expense_summary lists exactly the expenses dated from the first
\* day of the current month, that day included, up to today, and its total
\* is the sum of their amounts.
C18_SummaryCoversTheMonth ==
    resp.op = "get_expense_summary"
    => /\ {resp.out.expenses[k].id : k \in 1..Len(resp.out.expenses)}
            = ThisMonthSoFar(resp.today)
       /\ resp.out.total = SumOf(AmountOf, ThisMonthSoFar(resp.today))

\* C19: the mock calculators are deterministic: a call of get_weather_forecast
\* that follows a call with the same destination and dates, and a call of
\* intelligent_budget_optimizer that follows a call with the same itinerary in
\* state, returns the output the earlier call returned.
C19_MockCalculatorsAreDeterministic ==
    [][(/\ resp.op \in {"get_weather_forecast", "intelligent_budget_optimizer"}
        /\ resp'.op = resp.op
        /\ resp'.request = resp.request)
       => resp'.out = resp.out]_vars

\* The stored recommendations a call for trip_id is about: all of them when
\* no trip is named, else those of the trip.
MatchingStored(trip_id) ==
    {id \in Existing(recommendations) :
        trip_id # Nothing
            => ("trip_id" \in DOMAIN recommendations[id]
                /\ recommendations[id].trip_id = trip_id[1])}

Returned(out) == {out[k].id : k \in 1..Len(out)}

PriorityOrZero(x) == IF "priority" \in DOMAIN x THEN x.priority ELSE 0

C25_MissingIdChangesNothing ==
    [][/\ (resp'.op = "update_expense" /\ expenses[resp'.request.expense_id] = NoDoc)
            => (/\ resp'.message = "Expense not found"
                /\ expenses' = expenses
                /\ budgets' = budgets)
       /\ (resp'.op = "update_budget" /\ budgets[resp'.request.budget_id] = NoDoc)
            => (/\ resp'.message = "Budget not found"
                /\ expenses' = expenses
                /\ budgets' = budgets)]_vars

\* An update_budget that names new values found no document under its id,
\* while both collections hold documents.
C25_Reached ==
    /\ resp.op = "update_budget"
    /\ resp.message = "Budget not found"
    /\ resp.request.amount # Nothing
    /\ budgets[resp.request.budget_id] = NoDoc
    /\ Existing(budgets) # {}
    /\ Existing(expenses) # {}

\* The alerts by which tracking of an item type of a trip was started at a
\* price above p.
TrackedAbove(trip_id, item_type, p) ==
    {id \in Existing(deal_alerts) :
        /\ deal_alerts[id].source = "price_tracker"
        /\ deal_alerts[id].trip_id = trip_id
        /\ deal_alerts[id].deal_type = item_type
        /\ deal_alerts[id].deal_price > p}

\* C21: once track_price_changes has started tracking an item type of a trip
\* at price p by saving an alert, a later call for the same trip and item
\* type with a current price below p reports a price drop against p and
\* saves no second alert.
C21_LaterCallReportsTheDrop ==
    [][(/\ resp'.op = "track_price_changes"
        /\ TrackedAbove(resp'.request.trip_id, resp'.request.item_type,
                        resp'.request.current_price) # {})
       => (/\ resp'.message = "Price drop detected!"
           /\ \E id \in TrackedAbove(resp'.request.trip_id, resp'.request.item_type,
                                     resp'.request.current_price) :
                 resp'.was = deal_alerts[id].deal_price
           /\ deal_alerts' = deal_alerts)]_vars

\* The spending analyses saved for a user: the documents that
\* analyze_spending_patterns wrote.
AnalysesOf(user_id) ==
    {id \in Existing(spending_patterns) :
        /\ spending_patterns[id].user_id = user_id
        /\ spending_patterns[id].period # "preferences"}

\* C22: predict_budget_needs answers with the default daily estimates times
\* duration_days, confidence "low" and based_on_history false whenever no
\* spending analysis has been saved for the user, also after learn_preferences
\* was called for that user.
C22_DefaultsWithoutAnalysis ==
    [][(resp'.op = "predict_budget_needs" /\ AnalysesOf(resp'.request.user_id) = {})
       => (/\ resp'.out.category_breakdown =
                 ("Food" :> Quotient(500 * resp'.request.duration_days, 1))
                    @@ ("Transport" :> Quotient(300 * resp'.request.duration_days, 1))
                    @@ ("Activities" :> Quotient(400 * resp'.request.duration_days, 1))
                    @@ ("Misc" :> Quotient(200 * resp'.request.duration_days, 1))
           /\ resp'.out.confidence = "low"
           /\ resp'.out.based_on_history = FALSE)]_vars

\* C23: created_at of an itinerary document is written only by the save that
\* creates the document: no step changes the created_at of a document that
\* exists, however the existence checks and the writes of two saves for the
\* same user interleave.
C23_CreatedAtWrittenOnce ==
    [][\A u \in UserIds :
          (itineraries[u] # NoDoc /\ itineraries'[u] # NoDoc)
             => itineraries'[u].fields["created_at"] = itineraries[u].fields["created_at"]
      ]_vars

\* The fields an update_expense request gives a value for.
FieldsSet(request) ==
    {f \in {"name", "amount", "date", "category"} : request[f] # Nothing}

\* C24: two update_expense calls on one expense that set disjoint fields both
\* take effect however their reads and writes interleave: the write of a
\* call changes no field its call did not set, so it cannot undo the other
\* call's update.
C24_NoLostUpdate ==
    [][\A t \in TaskIds :
          (/\ tasks[t].at = "doc_ref.set"
           /\ tasks'[t].at = "idle"
           /\ expenses[tasks[t].request.expense_id] # NoDoc)
          => \A f \in {"name", "amount", "date", "category"} \ FieldsSet(tasks[t].request) :
                expenses'[tasks[t].request.expense_id][f]
                    = expenses[tasks[t].request.expense_id][f]
      ]_vars

\* The response the expense tracker gave to the first request of that name
\* the handler sent; NoResponse also when no such request was sent.
Answer(exchanges, name) ==
    IF \E k \in 1..Len(exchanges) : exchanges[k][1] = name
    THEN exchanges[CHOOSE k \in 1..Len(exchanges) :
                      /\ exchanges[k][1] = name
                      /\ \A j \in 1..(k - 1) : exchanges[j][1] # name][2]
    ELSE NoResponse

\* The session-creation POST succeeded: it was answered with a status below
\* 400.
PostSucceeded(exchanges) ==
    /\ ~Answer(exchanges, "POST /sessions").raised
    /\ Answer(exchanges, "POST /sessions").status_code < 400

PostConflict(exchanges) ==
    /\ ~Answer(exchanges, "POST /sessions").raised
    /\ Answer(exchanges, "POST /sessions").status_code = 409

\* C26: create_expense_session answers 200 with the requested session id
\* when the session POST was answered 409, whatever the GET of the existing
\* session gives; it answers 201 only when that POST succeeded; and it
\* answers 500 for every other failure of the expense tracker, a failing or
\* empty /list-apps among them.
C26_SessionStatusCodes ==
    resp.op = "create_expense_session" =>
        /\ PostConflict(resp.exchanges)
              => (resp.code = 200 /\ resp.body.id = requested_session_id(resp.data))
        /\ resp.code = 201 => PostSucceeded(resp.exchanges)
        /\ (~PostConflict(resp.exchanges) /\ ~PostSucceeded(resp.exchanges))
              => resp.code = 500

====
